---- MODULE Spec2Model ----
(***************************************************************************)
(* Asset download pipeline of the toolkit's main process                   *)
(* (src/lib/conveyor/handlers/settings-handler.ts).                        *)
(*                                                                         *)
(* The main process is one JavaScript event loop: the code between two     *)
(* awaits runs without interleaving, so one action of this model is one    *)
(* resolution (or rejection) of an awaited promise together with all the   *)
(* synchronous code that follows it up to the next await or the return.    *)
(* The handlers are async functions: every invocation ("run") has its own  *)
(* locals, kept in bt[r] (batch) and ar[r] (archive), and all runs share   *)
(* the module-level trackers.                                              *)
(***************************************************************************)
EXTENDS Integers, Sequences, FiniteSets, TLC

VARIABLES
    csgoPath,                   \* settings.csgoPath is set (settings.json)
    bulkDownloadProgress,       \* module-level batch tracker
    packageDownloadProgress,    \* module-level archive tracker
    packageDownloadCancelled,   \* module-level cancellation flag
    files,                      \* the maps folder: path -> size, or NoFile
    bt,                         \* locals of the download-missing-maps runs
    ar,                         \* locals of the download-map-package runs
    cx,                         \* position of the cancel-package-download runs
    caches,                     \* userData: the two cache files, or None
    now,                        \* Date.now(), in milliseconds
    fm,                         \* locals of the fetch-maps-list run
    lm,                         \* locals of the renderer's loadMaps run
    maps,                       \* the renderer's maps state (setMaps)
    gsiServer,                  \* gsi-handler's singleton has been created
    servers,                    \* fields of the GSI and the overlay server
    listeners,                  \* ports of the open listeners of each server
    sr,                         \* locals of the calls that start a server
    telemetry,                  \* latestGameState and lastDataReceived
    response,                   \* the GSI listener's last request and answer
    boot,                       \* autoStartGsiIfEnabled has been called
    used                        \* what the behaviour has used of the bounds

vars == <<csgoPath, bulkDownloadProgress, packageDownloadProgress,
          packageDownloadCancelled, files, bt, ar, cx, caches, now, fm, lm,
          maps, gsiServer, servers, listeners, sr, telemetry, response, boot,
          used>>

\* What only the catalog client and the renderer's map list touch.
catalogVars == <<now, fm, lm, maps>>

\* What only the two servers and their handlers touch.
serverVars == <<gsiServer, servers, listeners, sr, telemetry, response, boot>>

(***************************************************************************)
(* Bounds of the model.                                                    *)
(***************************************************************************)
MaxNames == 3            \* names handed to download-missing-maps, in all
MaxBatches == 2          \* invocations of download-missing-maps
MaxFaults == 2           \* environment faults (see below)
MaxArchives == 2         \* invocations of download-map-package
MaxLoads == 2            \* calls of the renderer's loadMaps
MaxTicks == 1            \* times the clock is seen to have advanced
MaxClock == 2000000000   \* the clock stays under 2^31 milliseconds
PortSpan == 1            \* ports a server tries after its first one
Bz2Len == 1024           \* byte length of every compressed body served

(***************************************************************************)
(* Program constants.                                                      *)
(***************************************************************************)
Bz2Threshold == 150 * 1024 * 1024    \* line 355
SizeTolerance == 1024 * 1024         \* lines 391 and 483
GsiStartPort == 3000                 \* gsi-handler.ts, lines 266 and 396
OverlayStartPort == 4000             \* overlay-handler.ts, line 30

(***************************************************************************)
(* Optional values (T | null) are sequences of length at most one.         *)
(***************************************************************************)
None == <<>>
Some(v) == <<v>>

NoFile == 0 - 1

Abs(x) == IF x < 0 THEN 0 - x ELSE x

(***************************************************************************)
(* The environment: names, the remote catalog, what the origin may serve.  *)
(***************************************************************************)
Names == {"a", "b", "c"}

\* The catalog the KZ API answers with: "a" is one byte under the bz2
\* threshold, "b" is exactly at it, "c" is not listed.
CatalogNames == {"a", "b"}
Catalog == [n \in CatalogNames |->
              IF n = "a" THEN Bz2Threshold - 1 ELSE Bz2Threshold]

\* const expectedSize = mapsMap.get(mapName) || 0
ExpectedSizeOf(mapsMap, n) ==
    IF n \in DOMAIN mapsMap THEN mapsMap[n] ELSE 0

\* Distances between the served size and the expected size.
Deltas == {0 - (SizeTolerance + 1), 0 - SizeTolerance, 0,
           SizeTolerance, SizeTolerance + 1}

\* Sizes the origin may serve for an asset of expected size e.
BodySizes(e) == {s \in {e + d : d \in Deltas} : s >= 0}

HttpStatuses == {200, 500}

NameLists == UNION {[1..k -> Names] : k \in 0..MaxNames}

\* The invocations of a handler that may be in flight together, and the one
\* of the specifications in which a handler is called again only after it
\* has returned.
Runs == {1, 2}
OneRun == {1}

(***************************************************************************)
(* Error messages (error.message of what was thrown).                      *)
(***************************************************************************)
Msg(kind, x, y) == [kind |-> kind, x |-> x, y |-> y]
HttpError(status) == Msg("HTTP", status, 0)             \* `HTTP ${status}`
NetworkError == Msg("Network", 0, 0)                    \* net.fetch / body rejects
FsError == Msg("Filesystem", 0, 0)                      \* fs-extra rejects
DecodeError == Msg("Decompression", 0, 0)               \* seek-bzip throws
SizeMismatch(e, got) == Msg("SizeMismatch", e, got)     \* lines 393, 485

(***************************************************************************)
(* Progress values are fractions <<received, contentLength>>.              *)
(***************************************************************************)
Zero == <<0, 1>>
One == <<1, 1>>
Frac(n, d) == IF n = 0 THEN Zero ELSE IF n = d THEN One ELSE <<n, d>>

(***************************************************************************)
(* Paths of the maps folder.                                               *)
(***************************************************************************)
MapPath(n) == <<n, "bsp">>
MapBz2Path(n) == <<n, "bsp.bz2">>
PackagePath == <<"GlobalMaps", "7z">>
Paths == {MapPath(n) : n \in Names} \cup {MapBz2Path(n) : n \in Names}
            \cup {PackagePath}

(***************************************************************************)
(* Module-level trackers as declared (lines 261-303).                      *)
(***************************************************************************)
InitBulk ==
    [total |-> 0, completed |-> 0, failed |-> 0, maps |-> <<>>,
     downloading |-> FALSE, currentMap |-> None, downloadSpeed |-> None]

InitPackage == [progress |-> Zero, downloading |-> FALSE, downloadSpeed |-> None]

\* One MapDownloadProgress as the handler creates it (lines 762-767).
PendingMap(name) ==
    [mapName |-> name, progress |-> Zero, status |-> "pending", error |-> None]

EmptyMap == [n \in {} |-> 0]

\* Locals of one download-missing-maps run (handler and downloadMapFile).
IdleBt ==
    [pc |-> "idle", mapNames |-> <<>>, mapsMap |-> EmptyMap, idx |-> 0,
     mp |-> 0, mpLive |-> FALSE, streaming |-> FALSE, contentLength |-> 0,
     remaining |-> 0, receivedBytes |-> 0, lastReceivedBytes |-> 0,
     buffer |-> 0, statSize |-> 0, ret |-> None]

(***************************************************************************)
(* The GSI server (part_009, lines 1000-1116) and the overlay server       *)
(* (overlay-server.ts), as their handlers find them at application start.  *)
(***************************************************************************)
Servers == {"gsi", "overlay"}

\* port: number | null and server: http.Server | null; a listener is named
\* by the port it holds.
NoPort == 0

\* The range server.start is called with: 3000..3100 and 4000..4100 in the
\* handlers, here StartPort..StartPort + PortSpan.
StartPort(s) == IF s = "gsi" THEN GsiStartPort ELSE OverlayStartPort
MaxPort(s) == StartPort(s) + PortSpan

\* The private fields of a server as constructed (gsiServer is a field of
\* the overlay server only).
InitServer ==
    [server |-> NoPort, port |-> NoPort, isRunning |-> FALSE,
     gsiServer |-> FALSE]

\* The locals of one call that starts a server: where it is, the port it is
\* trying, who called (an IPC handler or autoStartGsiIfEnabled) and what the
\* handler returned.
IdleSr ==
    [pc |-> "idle", port |-> NoPort, caller |-> "ipc",
     overlayEnabled |-> FALSE, ret |-> None]

InitTelemetry == [latestGameState |-> None, lastDataReceived |-> None]

ServersInit ==
    /\ gsiServer = FALSE
    /\ servers = [s \in Servers |-> InitServer]
    /\ listeners = [s \in Servers |-> {}]
    /\ sr = [s \in Servers |-> [q \in Runs |-> IdleSr]]
    /\ telemetry = InitTelemetry
    /\ response = [method |-> "", body |-> "", status |-> 0]
    /\ boot = FALSE

\* Time that passes between two Date.now() calls, in units of 500 ms.
Elapsed == {0, 2}

\* bytes / seconds, for a time given in units of 500 ms.
Speed(bytes, halfSeconds) == (2 * bytes) \div halfSeconds

\* The handler returns result: its locals go out of scope (the list it was
\* called with is kept, to name the run).
Return(t, result) ==
    [IdleBt EXCEPT !.pc = "returned", !.ret = Some(result),
                   !.mapNames = t.mapNames]

(***************************************************************************)
(* downloadMapFile, lines 334-507, as operators on (tracker, locals).      *)
(* Each returns <<tracker', locals'>>.                                     *)
(***************************************************************************)
MapNameOf(t) == t.mapNames[t.idx]
ExpectedSize(t) == ExpectedSizeOf(t.mapsMap, MapNameOf(t))

\* bulkDownloadProgress.maps.find((m) => m.mapName === mapName): the index
\* of the first entry of that name, 0 for undefined (line 344).
FindMap(list, name) ==
    IF \E i \in 1..Len(list) : list[i].mapName = name
    THEN CHOOSE i \in 1..Len(list) :
            /\ list[i].mapName = name
            /\ \A j \in 1..(i - 1) : list[j].mapName # name
    ELSE 0

\* A write through the mapProgress reference. The reference is to an object
\* of the tracker that was current when find ran; once the tracker has been
\* replaced the object is no longer reachable from bulkDownloadProgress.
WithMapProgress(bulk, t, status, progress, error) ==
    IF t.mp = 0 \/ ~t.mpLive THEN bulk
    ELSE [bulk EXCEPT !.maps[t.mp] =
            [mapName |-> @.mapName, progress |-> progress,
             status |-> status, error |-> error]]

MapProgressOf(bulk, t) ==
    IF t.mp = 0 \/ ~t.mpLive THEN PendingMap("") ELSE bulk.maps[t.mp]

\* UseBz2 with the comparison off by one (<= for <).
UseBz2OrEqual(expectedSize) == expectedSize <= Bz2Threshold

\* if (expectedSize < 150 * 1024 * 1024) (line 355)
UseBz2(expectedSize) == expectedSize < Bz2Threshold

\* EnterItem leaving downloadSpeed as the item before left it.
EnterItemKeepsSpeed(bulk, t) ==
    LET name == MapNameOf(t)
        mp == FindMap(bulk.maps, name)
        t1 == [t EXCEPT !.mp = mp, !.mpLive = TRUE, !.streaming = FALSE,
                        !.contentLength = 0, !.remaining = 0,
                        !.receivedBytes = 0, !.lastReceivedBytes = 0,
                        !.buffer = 0, !.statSize = 0]
        b1 == IF mp = 0 THEN bulk
              ELSE WithMapProgress(bulk, t1, "downloading", Zero,
                                   bulk.maps[mp].error)
        b2 == [b1 EXCEPT !.currentMap = Some(name)]
    IN <<b2, [t1 EXCEPT !.pc = IF UseBz2(ExpectedSize(t)) THEN "bz2_fetch"
                                ELSE "bsp_fetch"]>>

\* Lines 339-358 and 408-411: entry of downloadMapFile up to its first await.
EnterItem(bulk, t) ==
    LET name == MapNameOf(t)
        mp == FindMap(bulk.maps, name)
        t1 == [t EXCEPT !.mp = mp, !.mpLive = TRUE, !.streaming = FALSE,
                        !.contentLength = 0, !.remaining = 0,
                        !.receivedBytes = 0, !.lastReceivedBytes = 0,
                        !.buffer = 0, !.statSize = 0]
        b1 == IF mp = 0 THEN bulk
              ELSE WithMapProgress(bulk, t1, "downloading", Zero,
                                   bulk.maps[mp].error)
        b2 == [b1 EXCEPT !.currentMap = Some(name), !.downloadSpeed = None]
    IN <<b2, [t1 EXCEPT !.pc = IF UseBz2(ExpectedSize(t)) THEN "bz2_fetch"
                                ELSE "bsp_fetch"]>>

\* `Downloaded ${successCount} map(s)${failCount > 0 ? ... : ''}.` (line 794)
Summary(successCount, failCount) == Msg("Downloaded", successCount, failCount)

\* AfterItem leaving the loop at the first failed item.
AfterItemAbortOnFailure(bulk, t, success) ==
    LET counted == IF success THEN [bulk EXCEPT !.completed = @ + 1]
                   ELSE [bulk EXCEPT !.failed = @ + 1]
    IN IF success /\ t.idx < Len(t.mapNames)
       THEN EnterItem(counted, [t EXCEPT !.idx = @ + 1])
       ELSE <<[counted EXCEPT !.downloading = FALSE, !.currentMap = None,
                              !.downloadSpeed = None],
              Return(t, [success |-> counted.failed = 0,
                         message |-> Summary(counted.completed,
                                             counted.failed)])>>

\* AfterItem ending the batch with downloading = false only.
AfterItemKeepsCurrentMap(bulk, t, success) ==
    LET counted == IF success THEN [bulk EXCEPT !.completed = @ + 1]
                   ELSE [bulk EXCEPT !.failed = @ + 1]
    IN IF t.idx < Len(t.mapNames)
       THEN EnterItem(counted, [t EXCEPT !.idx = @ + 1])
       ELSE <<[counted EXCEPT !.downloading = FALSE],
              Return(t, [success |-> counted.failed = 0,
                         message |-> Summary(counted.completed,
                                             counted.failed)])>>

\* Lines 778-795: the handler counts the result and goes on with the next
\* name, or leaves the loop and returns the summary.
AfterItem(bulk, t, success) ==
    LET counted == IF success THEN [bulk EXCEPT !.completed = @ + 1]
                   ELSE [bulk EXCEPT !.failed = @ + 1]
    IN IF t.idx < Len(t.mapNames)
       THEN EnterItem(counted, [t EXCEPT !.idx = @ + 1])
       ELSE <<[counted EXCEPT !.downloading = FALSE, !.currentMap = None,
                              !.downloadSpeed = None],
              Return(t, [success |-> counted.failed = 0,
                         message |-> Summary(counted.completed,
                                             counted.failed)])>>

\* Lines 397-401: the compressed attempt succeeded.
CompleteBz2(bulk, t) ==
    AfterItem(WithMapProgress(bulk, t, "completed", One,
                              MapProgressOf(bulk, t).error), t, TRUE)

\* Lines 489-495: the direct attempt succeeded.
CompleteBsp(bulk, t) ==
    LET b1 == WithMapProgress(bulk, t, "completed", One,
                              MapProgressOf(bulk, t).error)
    IN AfterItem([b1 EXCEPT !.currentMap = None, !.downloadSpeed = None],
                 t, TRUE)

\* FailItem letting the error escape downloadMapFile, into the handler's
\* catch (lines 796-804).
FailItemRaises(bulk, t, error) ==
    <<[bulk EXCEPT !.downloading = FALSE, !.currentMap = None,
                   !.downloadSpeed = None],
      Return(t, [success |-> FALSE,
                 message |-> Msg("Error downloading maps: " \o error.kind,
                                error.x, error.y)])>>

\* Lines 496-506: catch (error) of the direct attempt.
FailItem(bulk, t, error) ==
    LET b1 == WithMapProgress(bulk, t, "failed",
                              MapProgressOf(bulk, t).progress, Some(error))
    IN AfterItem([b1 EXCEPT !.failed = @ + 1, !.currentMap = None,
                            !.downloadSpeed = None], t, FALSE)

\* FallThrough failing the item instead of going on to the direct fetch.
FallThroughFails(bulk, t, bz2Error) == FailItem(bulk, t, bz2Error)

\* Lines 402-411: catch (bz2Error) logs and falls through to the direct fetch.
FallThrough(bulk, t, bz2Error) == <<bulk, [t EXCEPT !.pc = "bsp_fetch"]>>

\* BeyondTolerance with the comparison off by one (>= for >).
AtOrBeyondTolerance(size, expectedSize) ==
    Abs(size - expectedSize) >= SizeTolerance

\* Math.abs(stats.size - expectedSize) > 1024 * 1024 (lines 391, 483)
BeyondTolerance(size, expectedSize) == Abs(size - expectedSize) > SizeTolerance

\* Lines 388-395: the compressed attempt removes and rejects when the sizes
\* differ by more than the tolerance.
Bz2SizeRejected(size, expectedSize) ==
    size # expectedSize /\ BeyondTolerance(size, expectedSize)

\* Lines 480-487: the direct attempt does so only for a known expected size.
BspSizeRejected(size, expectedSize) ==
    expectedSize > 0 /\ size # expectedSize /\ BeyondTolerance(size, expectedSize)

(***************************************************************************)
(* Initial state: the trackers as declared, an empty maps folder, no run.  *)
(***************************************************************************)
\* Locals of one download-map-package run. cancelRequested is no local of
\* the program: it records that cancel-package-download was called while
\* the run was in flight.
IdleAr ==
    [pc |-> "idle", contentLength |-> 0, remaining |-> 0, receivedBytes |-> 0,
     lastReceivedBytes |-> 0, buffer |-> 0, ret |-> None,
     cancelRequested |-> FALSE]

\* One entry of the manifest (MapInfo) and one of the renderer's list
\* (MapWithStatus); localSize null is written NoFile.
MapInfo(name, filesize) == [name |-> name, filesize |-> filesize]
MapWithStatus(map, status, localSize) ==
    [name |-> map.name, filesize |-> map.filesize, status |-> status,
     localSize |-> localSize]

\* What the KZ API may answer with: the catalog, a later catalog in which
\* "a" has grown by a byte and "b" is gone, or an empty list.
Manifest == <<MapInfo("a", Catalog["a"]), MapInfo("b", Catalog["b"])>>
LaterManifest == <<MapInfo("a", Catalog["a"] + 1)>>
Manifests == {Manifest, LaterManifest, <<>>}

\* Date.now() when the model starts.
Now0 == 1

\* The cache files as saveCachedMaps (lines 200-208) and
\* saveCachedCheckedMaps (lines 248-256) write them, left by an earlier
\* session.
CacheFile(data, timestamp) == [data |-> data, timestamp |-> timestamp]
OldCache == CacheFile(Manifest, Now0)
OldCheckedCache ==
    CacheFile(<<MapWithStatus(Manifest[1], "missing", NoFile),
                MapWithStatus(Manifest[2], "missing", NoFile)>>, Now0)

\* Locals of one fetch-maps-list run; requests counts its net.fetch calls.
IdleFm == [pc |-> "idle", cached |-> None, data |-> <<>>, timestamp |-> 0,
           requests |-> 0, fetchFailed |-> FALSE, ret |-> None,
           thrown |-> FALSE]

\* Locals of one loadMaps run of the renderer.
IdleLm == [pc |-> "idle", forceRefresh |-> FALSE, mapsList |-> <<>>,
           cachedCheckedMaps |-> None, localMaps |-> <<>>, timestamp |-> 0,
           message |-> None]

Init ==
    /\ ServersInit
    /\ csgoPath \in BOOLEAN
    /\ bulkDownloadProgress = InitBulk
    /\ packageDownloadProgress = InitPackage
    /\ packageDownloadCancelled = FALSE
    /\ files = [p \in Paths |-> NoFile]
    /\ bt = [r \in Runs |-> IdleBt]
    /\ ar = [r \in Runs |-> IdleAr]
    /\ cx = [r \in Runs |-> "idle"]
    /\ caches \in {[c \in {"maps", "checked"} |->
                        IF c = "maps" THEN m ELSE k] :
                     m \in {None, Some(OldCache)},
                     k \in {None, Some(OldCheckedCache)}}
    /\ now = Now0
    /\ fm = IdleFm
    /\ lm = IdleLm
    /\ maps = <<>>
    /\ used = [names |-> 0, batches |-> 0, faults |-> 0, archives |-> 0,
               loads |-> 0, ticks |-> 0]

(***************************************************************************)
(* Environment faults. A fault is an answer of the network, of the origin  *)
(* or of the filesystem other than the plain one: a rejected promise, a    *)
(* status other than 200, an archive that does not decode, a body whose    *)
(* size is not the catalog's, a missing or wrong content-length, a         *)
(* response without a reader. A behaviour has at most MaxFaults of them.   *)
(***************************************************************************)
FaultsLeft == MaxFaults - used.faults

Cost(isFault) == IF isFault THEN 1 ELSE 0

\* An fs-extra call resolves or rejects.
FsOutcomes == {"ok", "err"}

\* fs.readFile and fs.stat reject on a missing path.
FsOutcomesAt(path) == IF files[path] = NoFile THEN {"err"} ELSE FsOutcomes

\* What a net.fetch can come to: a rejection (written as status 0) or a
\* response with a status.
Rejected == 0
FetchOutcomes == {Rejected} \cup HttpStatuses

BatchFrame == UNCHANGED <<serverVars, csgoPath, packageDownloadProgress,
                          packageDownloadCancelled, ar, cx, caches,
                          catalogVars>>

\* The step of run r ends with tracker and locals res = <<tracker', locals'>>.
BatchStep(r, res) ==
    /\ bulkDownloadProgress' = res[1]
    /\ bt' = [bt EXCEPT ![r] = res[2]]

\* The step took cost faults of the environment.
Spend(cost) ==
    /\ cost <= FaultsLeft
    /\ used' = [used EXCEPT !.faults = @ + cost]

(***************************************************************************)
(* settings:download-missing-maps, lines 728-805.                          *)
(***************************************************************************)
\* The renderer invokes the handler, which runs up to await loadSettings().
InvokeBatch(r, mapNames) ==
    /\ bt[r].pc \in {"idle", "returned"}
    /\ used.batches < MaxBatches
    /\ used.names + Len(mapNames) <= MaxNames
    /\ used' = [used EXCEPT !.batches = @ + 1, !.names = @ + Len(mapNames)]
    /\ bt' = [bt EXCEPT ![r] = [IdleBt EXCEPT !.pc = "loadSettings",
                                              !.mapNames = mapNames]]
    /\ UNCHANGED <<bulkDownloadProgress, files>>
    /\ BatchFrame

ConfigMessage == Msg("CS:GO path not set", 0, 0)
NoFolderMessage == Msg("Could not determine maps folder", 0, 0)
\* `Error downloading maps: ${error.message}` (line 802)
BatchErrorMessage(error) ==
    Msg("Error downloading maps: " \o error.kind, error.x, error.y)

\* Lines 730-738: loadSettings resolves.
BatchLoadSettings(r) ==
    /\ bt[r].pc = "loadSettings"
    /\ bt' = [bt EXCEPT ![r] =
                IF csgoPath THEN [@ EXCEPT !.pc = "getMapsFolder"]
                ELSE Return(@, [success |-> FALSE, message |-> ConfigMessage])]
    /\ UNCHANGED <<bulkDownloadProgress, files, used>>
    /\ BatchFrame

\* Lines 740-748: getMapsFolder resolves (it reads the settings again).
BatchGetMapsFolder(r) ==
    /\ bt[r].pc = "getMapsFolder"
    /\ bt' = [bt EXCEPT ![r] =
                IF csgoPath THEN [@ EXCEPT !.pc = "ensureDir"]
                ELSE Return(@, [success |-> FALSE, message |-> NoFolderMessage])]
    /\ UNCHANGED <<bulkDownloadProgress, files, used>>
    /\ BatchFrame

\* BatchCatch replacing the tracker by an empty one.
BatchCatchClearsSession(bulk, t, error) ==
    <<[bulk EXCEPT !.total = 0, !.completed = 0, !.failed = 0, !.maps = <<>>,
                   !.downloading = FALSE, !.currentMap = None,
                   !.downloadSpeed = None],
      Return(t, [success |-> FALSE, message |-> BatchErrorMessage(error)])>>

\* Lines 796-804: the handler's catch.
BatchCatch(bulk, t, error) ==
    <<[bulk EXCEPT !.downloading = FALSE, !.currentMap = None,
                   !.downloadSpeed = None],
      Return(t, [success |-> FALSE, message |-> BatchErrorMessage(error)])>>

\* Line 748: ensureDir resolves or rejects.
BatchEnsureDir(r) ==
    /\ bt[r].pc = "ensureDir"
    /\ \E o \in FsOutcomes :
          /\ Spend(Cost(o # "ok"))
          /\ BatchStep(r, IF o = "ok"
                          THEN <<bulkDownloadProgress,
                                 [bt[r] EXCEPT !.pc = "fetchMapsList"]>>
                          ELSE BatchCatch(bulkDownloadProgress, bt[r], FsError))
    /\ UNCHANGED files
    /\ BatchFrame

\* SeedBulk keeping the counters of the tracker it replaces.
SeedBulkKeepsCounters(mapNames) ==
    [total |-> Len(mapNames), completed |-> bulkDownloadProgress.completed,
     failed |-> bulkDownloadProgress.failed,
     maps |-> [i \in 1..Len(mapNames) |-> PendingMap(mapNames[i])],
     downloading |-> TRUE, currentMap |-> None, downloadSpeed |-> None]

\* Lines 758-771: the tracker is replaced by a fresh one.
SeedBulk(mapNames) ==
    [total |-> Len(mapNames), completed |-> 0, failed |-> 0,
     maps |-> [i \in 1..Len(mapNames) |-> PendingMap(mapNames[i])],
     downloading |-> TRUE, currentMap |-> None, downloadSpeed |-> None]

\* Lines 774-795 from the seeded tracker: the first name is entered, or the
\* empty list is summarised at once.
StartLoop(bulk, t) ==
    IF Len(t.mapNames) > 0 THEN EnterItem(bulk, [t EXCEPT !.idx = 1])
    ELSE <<[bulk EXCEPT !.downloading = FALSE, !.currentMap = None,
                        !.downloadSpeed = None],
           Return(t, [success |-> bulk.failed = 0,
                      message |-> Summary(bulk.completed, bulk.failed)])>>

TypeError == Msg("TypeError", 0, 0)

\* Lines 751-776: the catalog request resolves with the list, resolves with
\* something that is no list, or rejects.
BatchFetchMapsList(r) ==
    /\ bt[r].pc = "fetchMapsList"
    /\ \E o \in {"list", "nolist", "reject"} :
          LET res == IF o = "list"
                     THEN StartLoop(SeedBulk(bt[r].mapNames),
                                    [bt[r] EXCEPT !.mapsMap = Catalog])
                     ELSE BatchCatch(bulkDownloadProgress, bt[r],
                                     IF o = "reject" THEN NetworkError
                                     ELSE TypeError)
          IN /\ Spend(Cost(o # "list"))
             /\ bulkDownloadProgress' = res[1]
             \* the objects of the replaced tracker are out of reach
             /\ bt' = [q \in Runs |->
                         IF q = r THEN res[2]
                         ELSE IF o = "list" THEN [bt[q] EXCEPT !.mpLive = FALSE]
                         ELSE bt[q]]
    /\ UNCHANGED files
    /\ BatchFrame

(***************************************************************************)
(* downloadMapFile, the compressed attempt (lines 354-406), one action per *)
(* await.                                                                  *)
(***************************************************************************)
\* Lines 358-362: the .bsp.bz2 request resolves or rejects.
Bz2Fetch(r) ==
    /\ bt[r].pc = "bz2_fetch"
    /\ \E o \in FetchOutcomes :
          /\ Spend(Cost(o # 200))
          /\ BatchStep(r,
                IF o = Rejected
                THEN FallThrough(bulkDownloadProgress, bt[r], NetworkError)
                ELSE IF o # 200
                THEN FallThrough(bulkDownloadProgress, bt[r], HttpError(o))
                ELSE <<bulkDownloadProgress, [bt[r] EXCEPT !.pc = "bz2_body"]>>)
    /\ UNCHANGED files
    /\ BatchFrame

\* Lines 366-381: the compressed body arrives whole.
Bz2Body(r) ==
    /\ bt[r].pc = "bz2_body"
    /\ \E o \in {"ok", "reject"}, totalTime \in Elapsed :
          /\ Spend(Cost(o # "ok"))
          /\ BatchStep(r,
                IF o = "reject"
                THEN FallThrough(bulkDownloadProgress, bt[r], NetworkError)
                ELSE LET b1 == WithMapProgress(bulkDownloadProgress, bt[r],
                                  MapProgressOf(bulkDownloadProgress, bt[r]).status,
                                  One,
                                  MapProgressOf(bulkDownloadProgress, bt[r]).error)
                     IN <<IF totalTime > 0
                          THEN [b1 EXCEPT !.downloadSpeed =
                                             Some(Speed(Bz2Len, totalTime))]
                          ELSE b1,
                          [bt[r] EXCEPT !.pc = "bz2_write", !.buffer = Bz2Len]>>)
    /\ UNCHANGED files
    /\ BatchFrame

\* Line 381: fs.writeFile(mapBz2Path, buffer), then decompressBzip2 is
\* entered (line 324).
Bz2Write(r) ==
    /\ bt[r].pc = "bz2_write"
    /\ \E o \in FsOutcomes :
          /\ Spend(Cost(o # "ok"))
          /\ IF o = "ok"
             THEN /\ files' = [files EXCEPT ![MapBz2Path(MapNameOf(bt[r]))] =
                                                 bt[r].buffer]
                  /\ BatchStep(r, <<bulkDownloadProgress,
                                    [bt[r] EXCEPT !.pc = "dec_read"]>>)
             ELSE /\ UNCHANGED files
                  /\ BatchStep(r, FallThrough(bulkDownloadProgress, bt[r],
                                              FsError))
    /\ BatchFrame

\* What bzip2Decode comes to: it throws (written as length -1) or yields
\* the decoded bytes.
Corrupt == 0 - 1

\* Lines 324-326: the compressed file is read back and decoded; the decoder
\* throws on a corrupt archive, else yields the decoded bytes.
DecRead(r) ==
    /\ bt[r].pc = "dec_read"
    /\ \E o \in FsOutcomesAt(MapBz2Path(MapNameOf(bt[r]))) :
       \E decoded \in {Corrupt} \cup BodySizes(ExpectedSize(bt[r])) :
          /\ Spend(IF o # "ok" THEN 1
                   ELSE Cost(decoded # ExpectedSize(bt[r])))
          /\ BatchStep(r,
                IF o = "err"
                THEN FallThrough(bulkDownloadProgress, bt[r], FsError)
                ELSE IF decoded = Corrupt
                THEN FallThrough(bulkDownloadProgress, bt[r], DecodeError)
                ELSE <<bulkDownloadProgress,
                       [bt[r] EXCEPT !.pc = "dec_write", !.buffer = decoded]>>)
    /\ UNCHANGED files
    /\ BatchFrame

\* Line 326: fs.writeFile(outputPath, decompressedData).
DecWrite(r) ==
    /\ bt[r].pc = "dec_write"
    /\ \E o \in FsOutcomes :
          /\ Spend(Cost(o # "ok"))
          /\ IF o = "ok"
             THEN /\ files' = [files EXCEPT ![MapPath(MapNameOf(bt[r]))] =
                                                 bt[r].buffer]
                  /\ BatchStep(r, <<bulkDownloadProgress,
                                    [bt[r] EXCEPT !.pc = "dec_remove"]>>)
             ELSE /\ UNCHANGED files
                  /\ BatchStep(r, FallThrough(bulkDownloadProgress, bt[r],
                                              FsError))
    /\ BatchFrame

\* Line 328: fs.remove(inputPath).
DecRemove(r) ==
    /\ bt[r].pc = "dec_remove"
    /\ \E o \in FsOutcomes :
          /\ Spend(Cost(o # "ok"))
          /\ IF o = "ok"
             THEN /\ files' = [files EXCEPT ![MapBz2Path(MapNameOf(bt[r]))] =
                                                 NoFile]
                  /\ BatchStep(r, <<bulkDownloadProgress,
                                    [bt[r] EXCEPT !.pc = "bz2_stat"]>>)
             ELSE /\ UNCHANGED files
                  /\ BatchStep(r, FallThrough(bulkDownloadProgress, bt[r],
                                              FsError))
    /\ BatchFrame

\* Lines 387-401: fs.stat(mapPath) and the size check of the compressed
\* attempt.
Bz2Stat(r) ==
    /\ bt[r].pc = "bz2_stat"
    /\ \E o \in FsOutcomesAt(MapPath(MapNameOf(bt[r]))) :
          LET size == files[MapPath(MapNameOf(bt[r]))]
          IN /\ Spend(Cost(o # "ok"))
             /\ BatchStep(r,
                   IF o = "err"
                   THEN FallThrough(bulkDownloadProgress, bt[r], FsError)
                   ELSE IF Bz2SizeRejected(size, ExpectedSize(bt[r]))
                   THEN <<bulkDownloadProgress,
                          [bt[r] EXCEPT !.pc = "bz2_rm", !.statSize = size]>>
                   ELSE CompleteBz2(bulkDownloadProgress, bt[r]))
    /\ UNCHANGED files
    /\ BatchFrame

\* Lines 392-393: the rejected file is removed, then the mismatch is thrown.
Bz2Remove(r) ==
    /\ bt[r].pc = "bz2_rm"
    /\ \E o \in FsOutcomes :
          /\ Spend(Cost(o # "ok"))
          /\ IF o = "ok"
             THEN /\ files' = [files EXCEPT ![MapPath(MapNameOf(bt[r]))] =
                                                 NoFile]
                  /\ BatchStep(r, FallThrough(bulkDownloadProgress, bt[r],
                                     SizeMismatch(ExpectedSize(bt[r]),
                                                  bt[r].statSize)))
             ELSE /\ UNCHANGED files
                  /\ BatchStep(r, FallThrough(bulkDownloadProgress, bt[r],
                                              FsError))
    /\ BatchFrame

(***************************************************************************)
(* downloadMapFile, the direct attempt (lines 408-506).                    *)
(***************************************************************************)
\* parseInt(response.headers.get('content-length') || '0', 10): the header
\* states the body's length, is absent, or states less than is served.
ContentLengths(bodyLen) == {bodyLen, 0, bodyLen \div 2}

\* The sizes of the chunk reader.read() may deliver next: the body comes in
\* one chunk or in two.
ChunkSizes(remaining, receivedBytes) ==
    IF receivedBytes = 0 /\ remaining > 1
    THEN {remaining \div 2, remaining}
    ELSE {remaining}

\* Lines 411-431 / 464: the .bsp request resolves or rejects.
BspFetch(r) ==
    /\ bt[r].pc = "bsp_fetch"
    /\ \E o \in FetchOutcomes :
       \E bodyLen \in BodySizes(ExpectedSize(bt[r])), streaming \in BOOLEAN :
       \E contentLength \in ContentLengths(bodyLen) :
          /\ Spend(IF o # 200 THEN 1
                   ELSE Cost(bodyLen # ExpectedSize(bt[r]))
                        + Cost(~streaming)
                        + Cost(contentLength # bodyLen))
          /\ BatchStep(r,
                IF o = Rejected
                THEN FailItem(bulkDownloadProgress, bt[r], NetworkError)
                ELSE IF o # 200
                THEN FailItem(bulkDownloadProgress, bt[r], HttpError(o))
                ELSE <<bulkDownloadProgress,
                       [bt[r] EXCEPT !.pc = IF streaming THEN "bsp_read"
                                            ELSE "bsp_body",
                                     !.streaming = streaming,
                                     !.contentLength = contentLength,
                                     !.remaining = bodyLen]>>)
    /\ UNCHANGED files
    /\ BatchFrame

\* Lines 430-461 and 476: one reader.read() resolves with a chunk, with
\* done, or rejects.
BspRead(r) ==
    /\ bt[r].pc = "bsp_read"
    /\ \E o \in {"ok", "reject"}, ticks \in Elapsed :
       \E chunk \in ChunkSizes(bt[r].remaining, bt[r].receivedBytes) :
          LET t == bt[r]
              received == t.receivedBytes + chunk
              b1 == IF t.contentLength > 0
                    THEN WithMapProgress(bulkDownloadProgress, t,
                            MapProgressOf(bulkDownloadProgress, t).status,
                            Frac(received, t.contentLength),
                            MapProgressOf(bulkDownloadProgress, t).error)
                    ELSE bulkDownloadProgress
          IN /\ Spend(Cost(o # "ok"))
             /\ BatchStep(r,
                   IF o = "reject"
                   THEN FailItem(bulkDownloadProgress, t, NetworkError)
                   ELSE IF t.remaining = 0
                   THEN \* done: lines 455-476
                        <<IF ticks > 0
                          THEN [bulkDownloadProgress EXCEPT !.downloadSpeed =
                                   Some(Speed(t.receivedBytes, ticks))]
                          ELSE bulkDownloadProgress,
                          [t EXCEPT !.pc = "bsp_write",
                                    !.buffer = t.receivedBytes]>>
                   ELSE \* a chunk: lines 434-452
                        <<IF ticks > 0
                          THEN [b1 EXCEPT !.downloadSpeed =
                                   Some(Speed(received - t.lastReceivedBytes,
                                              ticks))]
                          ELSE b1,
                          [t EXCEPT !.receivedBytes = received,
                                    !.remaining = @ - chunk,
                                    !.lastReceivedBytes =
                                        IF ticks > 0 THEN received ELSE @]>>)
    /\ UNCHANGED files
    /\ BatchFrame

\* Lines 464-476: no reader, the body arrives whole.
BspBody(r) ==
    /\ bt[r].pc = "bsp_body"
    /\ \E o \in {"ok", "reject"}, totalTime \in Elapsed :
          LET t == bt[r]
              b1 == WithMapProgress(bulkDownloadProgress, t,
                       MapProgressOf(bulkDownloadProgress, t).status, One,
                       MapProgressOf(bulkDownloadProgress, t).error)
          IN /\ Spend(Cost(o # "ok"))
             /\ BatchStep(r,
                   IF o = "reject"
                   THEN FailItem(bulkDownloadProgress, t, NetworkError)
                   ELSE <<IF totalTime > 0
                          THEN [b1 EXCEPT !.downloadSpeed =
                                   Some(Speed(t.remaining, totalTime))]
                          ELSE b1,
                          [t EXCEPT !.pc = "bsp_write", !.buffer = t.remaining,
                                    !.receivedBytes = t.remaining,
                                    !.remaining = 0]>>)
    /\ UNCHANGED files
    /\ BatchFrame

\* Line 476: fs.writeFile(mapPath, buffer).
BspWrite(r) ==
    /\ bt[r].pc = "bsp_write"
    /\ \E o \in FsOutcomes :
          /\ Spend(Cost(o # "ok"))
          /\ IF o = "ok"
             THEN /\ files' = [files EXCEPT ![MapPath(MapNameOf(bt[r]))] =
                                                 bt[r].buffer]
                  /\ BatchStep(r, <<bulkDownloadProgress,
                                    [bt[r] EXCEPT !.pc = "bsp_stat"]>>)
             ELSE /\ UNCHANGED files
                  /\ BatchStep(r, FailItem(bulkDownloadProgress, bt[r], FsError))
    /\ BatchFrame

\* Lines 479-495: fs.stat(mapPath) and the size check of the direct attempt.
BspStat(r) ==
    /\ bt[r].pc = "bsp_stat"
    /\ \E o \in FsOutcomesAt(MapPath(MapNameOf(bt[r]))) :
          LET size == files[MapPath(MapNameOf(bt[r]))]
          IN /\ Spend(Cost(o # "ok"))
             /\ BatchStep(r,
                   IF o = "err"
                   THEN FailItem(bulkDownloadProgress, bt[r], FsError)
                   ELSE IF BspSizeRejected(size, ExpectedSize(bt[r]))
                   THEN <<bulkDownloadProgress,
                          [bt[r] EXCEPT !.pc = "bsp_rm", !.statSize = size]>>
                   ELSE CompleteBsp(bulkDownloadProgress, bt[r]))
    /\ UNCHANGED files
    /\ BatchFrame

\* Lines 484-485 and 496-506: the rejected file is removed, the mismatch is
\* thrown and caught.
BspRemove(r) ==
    /\ bt[r].pc = "bsp_rm"
    /\ \E o \in FsOutcomes :
          /\ Spend(Cost(o # "ok"))
          /\ IF o = "ok"
             THEN /\ files' = [files EXCEPT ![MapPath(MapNameOf(bt[r]))] =
                                                 NoFile]
                  /\ BatchStep(r, FailItem(bulkDownloadProgress, bt[r],
                                     SizeMismatch(ExpectedSize(bt[r]),
                                                  bt[r].statSize)))
             ELSE /\ UNCHANGED files
                  /\ BatchStep(r, FailItem(bulkDownloadProgress, bt[r], FsError))
    /\ BatchFrame

(***************************************************************************)
(* settings:download-map-package, lines 813-969.                           *)
(***************************************************************************)
PackageLen == 4096

ArchiveFrame == UNCHANGED <<serverVars, csgoPath, bulkDownloadProgress, bt, cx, caches,
                            catalogVars>>

\* The step of run r ends with tracker and locals res = <<tracker', locals'>>.
ArchiveStep(r, res) ==
    /\ packageDownloadProgress' = res[1]
    /\ ar' = [ar EXCEPT ![r] = res[2]]

ArchiveReturn(result) == [IdleAr EXCEPT !.pc = "returned", !.ret = Some(result)]

CancelledMessage == Msg("Download cancelled by user", 0, 0)
PackageDoneMessage == Msg("Map package downloaded successfully", 0, 0)
\* `Error downloading map package: ${error.message}` (line 966)
PackageErrorMessage(error) ==
    Msg("Error downloading map package: " \o error.kind, error.x, error.y)

InvokeArchive(r) ==
    /\ ar[r].pc \in {"idle", "returned"}
    /\ used.archives < MaxArchives
    /\ used' = [used EXCEPT !.archives = @ + 1]
    /\ ar' = [ar EXCEPT ![r] = [IdleAr EXCEPT !.pc = "loadSettings"]]
    /\ UNCHANGED <<packageDownloadProgress, packageDownloadCancelled, files>>
    /\ ArchiveFrame

\* ArchiveLoadSettings resetting the flag and the tracker before it looks at
\* the path.
ArchiveLoadSettingsResetsFirst(r) ==
    /\ ar[r].pc = "loadSettings"
    /\ packageDownloadCancelled' = FALSE
    /\ packageDownloadProgress' = InitPackage
    /\ ar' = [ar EXCEPT ![r] =
                IF csgoPath THEN [@ EXCEPT !.pc = "getMapsFolder"]
                ELSE ArchiveReturn([success |-> FALSE,
                                    message |-> ConfigMessage])]
    /\ UNCHANGED <<files, used>>
    /\ ArchiveFrame

\* Lines 815-823: loadSettings resolves.
ArchiveLoadSettings(r) ==
    /\ ar[r].pc = "loadSettings"
    /\ ar' = [ar EXCEPT ![r] =
                IF csgoPath THEN [@ EXCEPT !.pc = "getMapsFolder"]
                ELSE ArchiveReturn([success |-> FALSE,
                                    message |-> ConfigMessage])]
    /\ UNCHANGED <<packageDownloadProgress, packageDownloadCancelled, files,
                   used>>
    /\ ArchiveFrame

\* Lines 825-833: getMapsFolder resolves.
ArchiveGetMapsFolder(r) ==
    /\ ar[r].pc = "getMapsFolder"
    /\ ar' = [ar EXCEPT ![r] =
                IF csgoPath THEN [@ EXCEPT !.pc = "ensureDir"]
                ELSE ArchiveReturn([success |-> FALSE,
                                    message |-> NoFolderMessage])]
    /\ UNCHANGED <<packageDownloadProgress, packageDownloadCancelled, files,
                   used>>
    /\ ArchiveFrame

\* ArchiveCatch returning the failure without touching the tracker.
ArchiveCatchKeepsTracker(package, a, error) ==
    <<package,
      ArchiveReturn([success |-> FALSE, message |-> PackageErrorMessage(error)])>>

\* Lines 954-968: the inner catch resets the tracker and rethrows, the outer
\* catch resets it again and returns the failure.
ArchiveCatch(package, a, error) ==
    <<[package EXCEPT !.downloading = FALSE, !.progress = Zero,
                      !.downloadSpeed = None],
      ArchiveReturn([success |-> FALSE, message |-> PackageErrorMessage(error)])>>

\* Lines 833-850: ensureDir resolves, the flag and the tracker are reset and
\* the request is issued; or ensureDir rejects.
ArchiveEnsureDir(r) ==
    /\ ar[r].pc = "ensureDir"
    /\ \E o \in FsOutcomes :
          /\ Spend(Cost(o # "ok"))
          /\ IF o = "ok"
             THEN /\ packageDownloadCancelled' = FALSE
                  /\ ArchiveStep(r, <<[progress |-> Zero, downloading |-> TRUE,
                                       downloadSpeed |-> None],
                                      [ar[r] EXCEPT !.pc = "fetch"]>>)
             ELSE /\ UNCHANGED packageDownloadCancelled
                  /\ ArchiveStep(r, ArchiveCatch(packageDownloadProgress, ar[r],
                                                 FsError))
    /\ UNCHANGED files
    /\ ArchiveFrame

\* Lines 867-879, up to await fs.pathExists: the check at the top of the
\* read loop.
CancelObserved(package, a) ==
    <<[package EXCEPT !.downloading = FALSE, !.progress = Zero,
                      !.downloadSpeed = None],
      [a EXCEPT !.pc = "cancel_exists"]>>

\* CancelReturned leaving progress and downloadSpeed as they are.
CancelReturnedKeepsProgress(package, a) ==
    <<[package EXCEPT !.downloading = FALSE],
      ArchiveReturn([success |-> FALSE, message |-> CancelledMessage])>>

\* Lines 906-914 and 935-943: the checks after the loop and before the write
\* return at once.
CancelReturned(package, a) ==
    <<[package EXCEPT !.downloading = FALSE, !.progress = Zero,
                      !.downloadSpeed = None],
      ArchiveReturn([success |-> FALSE, message |-> CancelledMessage])>>

\* LoopTop going on to read without looking at the flag.
LoopTopIgnoresCancel(cancelled, package, a) ==
    <<package, [a EXCEPT !.pc = "read"]>>

\* Lines 865-881: the top of the read loop.
LoopTop(cancelled, package, a) ==
    IF cancelled THEN CancelObserved(package, a)
    ELSE <<package, [a EXCEPT !.pc = "read"]>>

\* Lines 850-881 / 925: the package request resolves or rejects.
ArchiveFetch(r) ==
    /\ ar[r].pc = "fetch"
    /\ \E o \in FetchOutcomes, streaming \in BOOLEAN :
       \E contentLength \in ContentLengths(PackageLen) :
          LET a == [ar[r] EXCEPT !.contentLength = contentLength,
                                 !.remaining = PackageLen]
          IN /\ Spend(IF o # 200 THEN 1
                      ELSE Cost(~streaming) + Cost(contentLength # PackageLen))
             /\ ArchiveStep(r,
                   IF o = Rejected
                   THEN ArchiveCatch(packageDownloadProgress, ar[r], NetworkError)
                   ELSE IF o # 200
                   THEN ArchiveCatch(packageDownloadProgress, ar[r], HttpError(o))
                   ELSE IF streaming
                   THEN LoopTop(packageDownloadCancelled,
                                packageDownloadProgress, a)
                   ELSE <<packageDownloadProgress, [a EXCEPT !.pc = "body"]>>)
    /\ UNCHANGED <<packageDownloadCancelled, files>>
    /\ ArchiveFrame

\* Lines 881-945: one reader.read() resolves with a chunk, with done, or
\* rejects.
ArchiveRead(r) ==
    /\ ar[r].pc = "read"
    /\ \E o \in {"ok", "reject"}, ticks \in Elapsed :
       \E chunk \in ChunkSizes(ar[r].remaining, ar[r].receivedBytes) :
          LET a == ar[r]
              received == a.receivedBytes + chunk
              p1 == IF a.contentLength > 0
                    THEN [packageDownloadProgress EXCEPT
                             !.progress = Frac(received, a.contentLength)]
                    ELSE packageDownloadProgress
          IN /\ Spend(Cost(o # "ok"))
             /\ ArchiveStep(r,
                   IF o = "reject"
                   THEN ArchiveCatch(packageDownloadProgress, a, NetworkError)
                   ELSE IF a.remaining = 0
                   THEN \* done: lines 905-945
                        IF packageDownloadCancelled
                        THEN CancelReturned(packageDownloadProgress, a)
                        ELSE <<IF ticks > 0
                               THEN [packageDownloadProgress EXCEPT
                                       !.downloadSpeed =
                                          Some(Speed(a.receivedBytes, ticks))]
                               ELSE packageDownloadProgress,
                               [a EXCEPT !.pc = "write",
                                         !.buffer = a.receivedBytes]>>
                   ELSE \* a chunk: lines 884-902, then the top of the loop
                        LoopTop(packageDownloadCancelled,
                           IF ticks > 0
                           THEN [p1 EXCEPT !.downloadSpeed =
                                   Some(Speed(received - a.lastReceivedBytes,
                                              ticks))]
                           ELSE p1,
                           [a EXCEPT !.receivedBytes = received,
                                     !.remaining = @ - chunk,
                                     !.lastReceivedBytes =
                                         IF ticks > 0 THEN received ELSE @]))
    /\ UNCHANGED <<packageDownloadCancelled, files>>
    /\ ArchiveFrame

\* Lines 925-945: no reader, the body arrives whole.
ArchiveBody(r) ==
    /\ ar[r].pc = "body"
    /\ \E o \in {"ok", "reject"}, totalTime \in Elapsed :
          LET a == ar[r]
              p1 == [packageDownloadProgress EXCEPT !.progress = One]
              p2 == IF totalTime > 0
                    THEN [p1 EXCEPT !.downloadSpeed =
                                      Some(Speed(a.remaining, totalTime))]
                    ELSE p1
          IN /\ Spend(Cost(o # "ok"))
             /\ ArchiveStep(r,
                   IF o = "reject"
                   THEN ArchiveCatch(packageDownloadProgress, a, NetworkError)
                   ELSE IF packageDownloadCancelled
                   THEN CancelReturned(p2, a)
                   ELSE <<p2, [a EXCEPT !.pc = "write", !.buffer = a.remaining,
                                        !.receivedBytes = a.remaining,
                                        !.remaining = 0]>>)
    /\ UNCHANGED <<packageDownloadCancelled, files>>
    /\ ArchiveFrame

\* Lines 945-953: fs.writeFile(packagePath, buffer) resolves or rejects.
ArchiveWrite(r) ==
    /\ ar[r].pc = "write"
    /\ \E o \in FsOutcomes :
          /\ Spend(Cost(o # "ok"))
          /\ IF o = "ok"
             THEN /\ files' = [files EXCEPT ![PackagePath] = ar[r].buffer]
                  /\ ArchiveStep(r,
                        <<[packageDownloadProgress EXCEPT
                              !.downloading = FALSE, !.progress = One],
                          ArchiveReturn([success |-> TRUE,
                                         message |-> PackageDoneMessage])>>)
             ELSE /\ UNCHANGED files
                  /\ ArchiveStep(r, ArchiveCatch(packageDownloadProgress, ar[r],
                                                 FsError))
    /\ UNCHANGED packageDownloadCancelled
    /\ ArchiveFrame

\* Lines 872-879: fs.pathExists(packagePath) resolves.
ArchiveCancelExists(r) ==
    /\ ar[r].pc = "cancel_exists"
    /\ ArchiveStep(r,
          IF files[PackagePath] # NoFile
          THEN <<packageDownloadProgress, [ar[r] EXCEPT !.pc = "cancel_remove"]>>
          ELSE <<packageDownloadProgress,
                 ArchiveReturn([success |-> FALSE,
                                message |-> CancelledMessage])>>)
    /\ UNCHANGED <<packageDownloadCancelled, files, used>>
    /\ ArchiveFrame

\* Lines 873-878: fs.remove(packagePath) resolves or rejects.
ArchiveCancelRemove(r) ==
    /\ ar[r].pc = "cancel_remove"
    /\ \E o \in FsOutcomes :
          /\ Spend(Cost(o # "ok"))
          /\ IF o = "ok"
             THEN /\ files' = [files EXCEPT ![PackagePath] = NoFile]
                  /\ ArchiveStep(r,
                        <<packageDownloadProgress,
                          ArchiveReturn([success |-> FALSE,
                                         message |-> CancelledMessage])>>)
             ELSE /\ UNCHANGED files
                  /\ ArchiveStep(r, ArchiveCatch(packageDownloadProgress, ar[r],
                                                 FsError))
    /\ UNCHANGED packageDownloadCancelled
    /\ ArchiveFrame

(***************************************************************************)
(* settings:cancel-package-download, lines 977-996.                        *)
(***************************************************************************)
CancelFrame == UNCHANGED <<serverVars, csgoPath, bulkDownloadProgress,
                           packageDownloadProgress, files, bt, used,
                           catalogVars>>

\* The runs in flight are marked as having had a cancel call.
MarkCancelRequested ==
    [q \in Runs |->
        IF ar[q].pc \in {"idle", "returned"} THEN ar[q]
        ELSE [ar[q] EXCEPT !.cancelRequested = TRUE]]

\* InvokeCancel putting the batch session to rest as well.
InvokeCancelStopsBatch(r) ==
    /\ cx[r] = "idle"
    /\ packageDownloadCancelled' = TRUE
    /\ cx' = [cx EXCEPT ![r] = "exists_maps"]
    /\ ar' = MarkCancelRequested
    /\ bulkDownloadProgress' =
          [bulkDownloadProgress EXCEPT !.downloading = FALSE,
                                       !.currentMap = None]
    /\ UNCHANGED <<serverVars, csgoPath, packageDownloadProgress, files, bt, used,
                   caches, catalogVars>>

\* Lines 978-983: the flag is set, then the maps cache is looked for.
InvokeCancel(r) ==
    /\ cx[r] = "idle"
    /\ packageDownloadCancelled' = TRUE
    /\ cx' = [cx EXCEPT ![r] = "exists_maps"]
    /\ ar' = MarkCancelRequested
    /\ UNCHANGED caches
    /\ CancelFrame

\* Lines 983-988: fs.pathExists(cachePath) resolves.
CancelExistsMaps(r) ==
    /\ cx[r] = "exists_maps"
    /\ cx' = [cx EXCEPT ![r] = IF caches["maps"] # None THEN "remove_maps"
                               ELSE "exists_checked"]
    /\ UNCHANGED <<packageDownloadCancelled, caches, ar>>
    /\ CancelFrame

\* Lines 984-988: fs.remove(cachePath) resolves.
CancelRemoveMaps(r) ==
    /\ cx[r] = "remove_maps"
    /\ caches' = [caches EXCEPT !["maps"] = None]
    /\ cx' = [cx EXCEPT ![r] = "exists_checked"]
    /\ UNCHANGED <<packageDownloadCancelled, ar>>
    /\ CancelFrame

\* Lines 988-995: fs.pathExists(checkedCachePath) resolves.
CancelExistsChecked(r) ==
    /\ cx[r] = "exists_checked"
    /\ cx' = [cx EXCEPT ![r] = IF caches["checked"] # None
                               THEN "remove_checked" ELSE "idle"]
    /\ UNCHANGED <<packageDownloadCancelled, caches, ar>>
    /\ CancelFrame

\* Lines 989-995: fs.remove(checkedCachePath) resolves; { success: true }.
CancelRemoveChecked(r) ==
    /\ cx[r] = "remove_checked"
    /\ caches' = [caches EXCEPT !["checked"] = None]
    /\ cx' = [cx EXCEPT ![r] = "idle"]
    /\ UNCHANGED <<packageDownloadCancelled, ar>>
    /\ CancelFrame

(***************************************************************************)
(* The catalog client: the manifest cache and settings:fetch-maps-list     *)
(* (lines 174-216 and 645-682).                                            *)
(***************************************************************************)
Hour == 60 * 60 * 1000

\* const oneDayInMs = 24 * 60 * 60 * 1000 (line 214)
oneDayInMs == 24 * 60 * 60 * 1000

\* isCacheValid, lines 213-217.
isCacheValid(timestamp) == now - timestamp < oneDayInMs

\* Lines 185-188 and 233-236: the parsed file counts as a cache when its data
\* and its timestamp are truthy (a list always is, a timestamp of 0 is not).
ParseCache(file) == IF file.timestamp # 0 THEN Some(file) ELSE None

\* How far the clock is seen to have advanced between two steps.
ClockSteps == {2 * Hour, oneDayInMs - 1, oneDayInMs, 10 * oneDayInMs}

\* Time passes.
Tick(d) ==
    /\ used.ticks < MaxTicks
    /\ now + d <= MaxClock
    /\ now' = now + d
    /\ used' = [used EXCEPT !.ticks = @ + 1]
    /\ UNCHANGED <<serverVars, csgoPath, bulkDownloadProgress, packageDownloadProgress,
                   packageDownloadCancelled, files, bt, ar, cx, caches, fm, lm,
                   maps>>

CatalogFrame == UNCHANGED <<serverVars, csgoPath, bulkDownloadProgress,
                            packageDownloadProgress, packageDownloadCancelled,
                            files, bt, ar, cx, now>>

\* The handler is entered: it runs up to the first await of loadCachedMaps.
EnterFetchMapsList == [IdleFm EXCEPT !.pc = "exists"]

\* return data
FetchReturn(f, data) == [f EXCEPT !.pc = "returned", !.ret = Some(data)]

\* throw error (line 680): the invoke of the renderer rejects.
FetchThrow(f) == [f EXCEPT !.pc = "returned", !.thrown = TRUE]

\* FallbackUsable accepting a cache only while it is valid.
FallbackUsableWhileValid(cached) ==
    cached # None /\ isCacheValid(cached[1].timestamp)

\* if (cached) of the two fallbacks (lines 659 and 675).
FallbackUsable(cached) == cached # None

\* Lines 649-656: the cache has been loaded; it is returned when it is
\* valid, else the request is issued.
AfterLoadCachedMaps(f, cached) ==
    IF cached # None /\ isCacheValid(cached[1].timestamp)
    THEN FetchReturn([f EXCEPT !.cached = cached], cached[1].data)
    ELSE [f EXCEPT !.cached = cached, !.pc = "fetch", !.requests = @ + 1]

\* Lines 672-680: the handler's catch is entered, up to its first await.
FetchCatch(f) == [f EXCEPT !.pc = "catch_exists"]

\* Line 183 from line 649: fs.pathExists(cachePath) resolves.
FetchExists ==
    /\ fm.pc = "exists"
    /\ fm' = IF caches["maps"] # None THEN [fm EXCEPT !.pc = "read"]
             ELSE AfterLoadCachedMaps(fm, None)
    /\ UNCHANGED <<caches, lm, maps, used>>
    /\ CatalogFrame

\* Lines 185-191 from line 649: readFile resolves and the content is parsed,
\* or it rejects and loadCachedMaps returns null.
FetchRead ==
    /\ fm.pc = "read"
    /\ \E o \in IF caches["maps"] = None THEN {"err"} ELSE FsOutcomes :
          /\ Spend(Cost(o # "ok"))
          /\ fm' = AfterLoadCachedMaps(fm, IF o = "ok"
                                           THEN ParseCache(caches["maps"][1])
                                           ELSE None)
    /\ UNCHANGED <<caches, lm, maps>>
    /\ CatalogFrame

\* Lines 656-664: net.fetch resolves or rejects.
FetchResponse ==
    /\ fm.pc = "fetch"
    /\ \E o \in FetchOutcomes :
          /\ Spend(Cost(o # 200))
          /\ fm' = IF o = 200 THEN [fm EXCEPT !.pc = "json"]
                   ELSE IF o # Rejected /\ FallbackUsable(fm.cached)
                   THEN FetchReturn([fm EXCEPT !.fetchFailed = TRUE],
                                    fm.cached[1].data)
                   ELSE FetchCatch([fm EXCEPT !.fetchFailed = TRUE])
    /\ UNCHANGED <<caches, lm, maps>>
    /\ CatalogFrame

\* Lines 665-668 and 201-206: response.json() resolves, saveCachedMaps is
\* entered and takes the time; or response.json() rejects.
FetchJson ==
    /\ fm.pc = "json"
    /\ \E o \in {"ok", "reject"}, data \in Manifests :
          /\ Spend(Cost(o # "ok"))
          /\ fm' = IF o = "ok"
                   THEN [fm EXCEPT !.pc = "ensureDir", !.data = data,
                                   !.timestamp = now]
                   ELSE FetchCatch(fm)
    /\ UNCHANGED <<caches, lm, maps>>
    /\ CatalogFrame

\* Line 206: fs.ensureDir resolves or rejects.
FetchEnsureDir ==
    /\ fm.pc = "ensureDir"
    /\ \E o \in FsOutcomes :
          /\ Spend(Cost(o # "ok"))
          /\ fm' = IF o = "ok" THEN [fm EXCEPT !.pc = "write"]
                   ELSE FetchCatch(fm)
    /\ UNCHANGED <<caches, lm, maps>>
    /\ CatalogFrame

\* Lines 207 and 668-671: fs.writeJSON resolves and the data is returned, or
\* it rejects.
FetchWrite ==
    /\ fm.pc = "write"
    /\ \E o \in FsOutcomes :
          /\ Spend(Cost(o # "ok"))
          /\ IF o = "ok"
             THEN /\ caches' = [caches EXCEPT !["maps"] =
                                   Some(CacheFile(fm.data, fm.timestamp))]
                  /\ fm' = FetchReturn(fm, fm.data)
             ELSE /\ UNCHANGED caches
                  /\ fm' = FetchCatch(fm)
    /\ UNCHANGED <<lm, maps>>
    /\ CatalogFrame

\* Lines 674-680: the cache that the catch has loaded is returned, else the
\* error is thrown on.
AfterCatchLoad(f, cached) ==
    IF FallbackUsable(cached) THEN FetchReturn(f, cached[1].data)
    ELSE FetchThrow(f)

\* Line 183 from line 674: fs.pathExists(cachePath) resolves.
FetchCatchExists ==
    /\ fm.pc = "catch_exists"
    /\ fm' = IF caches["maps"] # None THEN [fm EXCEPT !.pc = "catch_read"]
             ELSE AfterCatchLoad(fm, None)
    /\ UNCHANGED <<caches, lm, maps, used>>
    /\ CatalogFrame

\* Lines 185-191 from line 674: readFile resolves or rejects.
FetchCatchRead ==
    /\ fm.pc = "catch_read"
    /\ \E o \in IF caches["maps"] = None THEN {"err"} ELSE FsOutcomes :
          /\ Spend(Cost(o # "ok"))
          /\ fm' = AfterCatchLoad(fm, IF o = "ok"
                                      THEN ParseCache(caches["maps"][1])
                                      ELSE None)
    /\ UNCHANGED <<caches, lm, maps>>
    /\ CatalogFrame

FetchMapsListStep ==
    \/ FetchExists \/ FetchRead \/ FetchResponse \/ FetchJson
    \/ FetchEnsureDir \/ FetchWrite \/ FetchCatchExists \/ FetchCatchRead

(***************************************************************************)
(* The renderer's loadMaps (src/unnamed/part_004, lines 306-380) with the  *)
(* handlers it invokes: settings:load-checked-maps (lines 1021-1027),      *)
(* settings:fetch-maps-list, settings:check-local-maps (lines 685-725) and *)
(* settings:save-checked-maps (lines 1016-1018).                           *)
(***************************************************************************)
LoadMapsMessage == Msg("Error loading maps", 0, 0)

\* cachedCheckedMaps.map(({ status, localSize, ...mapInfo }) => mapInfo)
StripStatus(list) ==
    [i \in 1..Len(list) |-> MapInfo(list[i].name, list[i].filesize)]

\* One entry of what check-local-maps returns (lines 702-714).
LocalMapInfo(name, filesize, exists) ==
    [name |-> name, filesize |-> filesize, exists |-> exists]

\* AssetStatus telling a present file from an absent one only.
AssetStatusIgnoringSize(filesize, localMap) ==
    IF localMap # None /\ localMap[1].exists THEN "downloaded" ELSE "missing"

\* part_004, lines 346-356: the status of a map of the manifest, given the
\* entry of that name in the local list (None when there is none).
AssetStatus(filesize, localMap) ==
    IF localMap # None /\ localMap[1].exists
    THEN IF localMap[1].filesize = filesize THEN "downloaded"
         ELSE "size_mismatch"
    ELSE "missing"

\* part_004, lines 347-351: localSize.
LocalSize(localMap) ==
    IF localMap # None /\ localMap[1].exists THEN localMap[1].filesize
    ELSE NoFile

\* localMapsMap.get(map.name) (part_004, lines 341 and 345).
LocalMapOf(localMaps, name) ==
    IF name \in DOMAIN localMaps THEN Some(localMaps[name]) ELSE None

\* part_004, lines 344-363: the manifest joined with the local list.
MapsWithStatus(mapsList, localMaps) ==
    [i \in 1..Len(mapsList) |->
        LET localMap == LocalMapOf(localMaps, mapsList[i].name)
        IN MapWithStatus(mapsList[i],
                         AssetStatus(mapsList[i].filesize, localMap),
                         LocalSize(localMap))]

\* The .bsp files readdir lists (lines 695-696), by map name.
ListedMaps == {n \in Names : files[MapPath(n)] # NoFile}

LoadMapsFrame == UNCHANGED <<serverVars, csgoPath, bulkDownloadProgress,
                             packageDownloadProgress, packageDownloadCancelled,
                             files, bt, ar, cx, now>>

\* part_004, lines 372-379: catch and finally.
LoadMapsFail(l) == [IdleLm EXCEPT !.pc = "returned",
                                  !.forceRefresh = l.forceRefresh,
                                  !.message = Some(LoadMapsMessage)]

\* part_004, lines 333-338: the manifest is fetched, or the cached list is
\* used and the local maps are checked. Yields <<lm', fm'>>.
AfterLoadCheckedMaps(l, cached) ==
    IF cached # None /\ Len(cached[1].data) > 0
    THEN <<[l EXCEPT !.cachedCheckedMaps = Some(cached[1].data),
                     !.mapsList = StripStatus(cached[1].data),
                     !.pc = "cl_folder"], fm>>
    ELSE <<[l EXCEPT !.pc = "fetchMapsList"], EnterFetchMapsList>>

\* part_004, lines 306-334: loadMaps is called, up to its first await.
InvokeLoadMaps(forceRefresh) ==
    /\ lm.pc \in {"idle", "returned"}
    /\ used.loads < MaxLoads
    /\ used' = [used EXCEPT !.loads = @ + 1]
    /\ LET l == [IdleLm EXCEPT !.forceRefresh = forceRefresh]
       IN IF ~csgoPath
          THEN /\ lm' = [l EXCEPT !.pc = "returned",
                                  !.message = Some(ConfigMessage)]
               /\ UNCHANGED fm
          ELSE IF forceRefresh
          THEN /\ lm' = [l EXCEPT !.pc = "fetchMapsList"]
               /\ fm' = EnterFetchMapsList
          ELSE /\ lm' = [l EXCEPT !.pc = "lc_exists"]
               /\ UNCHANGED fm
    /\ UNCHANGED <<caches, maps>>
    /\ LoadMapsFrame

\* Lines 1022-1026: what load-checked-maps returns for the loaded cache.
CheckedResult(cached) ==
    IF cached # None /\ isCacheValid(cached[1].timestamp) THEN cached
    ELSE None

\* Line 231 from line 1022: fs.pathExists(cachePath) resolves.
LoadCheckedExists ==
    /\ lm.pc = "lc_exists"
    /\ LET res == IF caches["checked"] # None
                  THEN <<[lm EXCEPT !.pc = "lc_read"], fm>>
                  ELSE AfterLoadCheckedMaps(lm, None)
       IN lm' = res[1] /\ fm' = res[2]
    /\ UNCHANGED <<caches, maps, used>>
    /\ LoadMapsFrame

\* Lines 233-239 and 1023-1026: readFile resolves or rejects.
LoadCheckedRead ==
    /\ lm.pc = "lc_read"
    /\ \E o \in IF caches["checked"] = None THEN {"err"} ELSE FsOutcomes :
          LET cached == IF o = "ok" THEN ParseCache(caches["checked"][1])
                        ELSE None
              res == AfterLoadCheckedMaps(lm, CheckedResult(cached))
          IN /\ Spend(Cost(o # "ok"))
             /\ lm' = res[1]
             /\ fm' = res[2]
    /\ UNCHANGED <<caches, maps>>
    /\ LoadMapsFrame

\* part_004, lines 334-338: fetchMapsList has resolved or rejected.
LoadMapsFetched ==
    /\ lm.pc = "fetchMapsList"
    /\ fm.pc = "returned"
    /\ lm' = IF fm.thrown THEN LoadMapsFail(lm)
             ELSE [lm EXCEPT !.mapsList = fm.ret[1], !.pc = "cl_folder"]
    /\ UNCHANGED <<caches, fm, maps, used>>
    /\ LoadMapsFrame

\* part_004, lines 341-369 and lines 249-254: check-local-maps has returned
\* localMaps; the statuses are computed and set, and save-checked-maps is
\* entered.
SetMaps(l, localMaps) ==
    <<[l EXCEPT !.localMaps = localMaps, !.timestamp = now,
                !.pc = "sc_ensureDir"],
      MapsWithStatus(l.mapsList, localMaps)>>

\* Lines 687-690: getMapsFolder resolves; an absent folder is an empty one to
\* this handler (lines 691-693).
CheckLocalFolder ==
    /\ lm.pc = "cl_folder"
    /\ LET res == IF csgoPath THEN <<[lm EXCEPT !.pc = "cl_readdir"], maps>>
                  ELSE SetMaps(lm, <<>>)
       IN lm' = res[1] /\ maps' = res[2]
    /\ UNCHANGED <<caches, fm, used>>
    /\ LoadMapsFrame

\* Lines 695-698 and 720-723: fs.readdir resolves, or rejects and the
\* handler returns [].
CheckLocalReaddir ==
    /\ lm.pc = "cl_readdir"
    /\ \E o \in FsOutcomes :
          LET res == IF o = "ok"
                     THEN <<[lm EXCEPT !.pc = "cl_stat",
                                       !.localMaps = [n \in ListedMaps |-> 0]],
                            maps>>
                     ELSE SetMaps(lm, <<>>)
          IN /\ Spend(Cost(o # "ok"))
             /\ lm' = res[1]
             /\ maps' = res[2]
    /\ UNCHANGED <<caches, fm>>
    /\ LoadMapsFrame

\* Lines 698-718: every fs.stat has resolved or rejected.
CheckLocalStat ==
    /\ lm.pc = "cl_stat"
    /\ \E failing \in SUBSET DOMAIN lm.localMaps :
          LET localMaps ==
                 [n \in DOMAIN lm.localMaps |->
                     IF n \in failing \/ files[MapPath(n)] = NoFile
                     THEN LocalMapInfo(n, NoFile, FALSE)
                     ELSE LocalMapInfo(n, files[MapPath(n)], TRUE)]
              res == SetMaps(lm, localMaps)
          IN /\ Spend(Cardinality(failing))
             /\ lm' = res[1]
             /\ maps' = res[2]
    /\ UNCHANGED <<caches, fm>>
    /\ LoadMapsFrame

\* Line 253 and part_004, lines 368-379: fs.ensureDir resolves, or rejects
\* and the renderer logs it.
SaveCheckedEnsureDir ==
    /\ lm.pc = "sc_ensureDir"
    /\ \E o \in FsOutcomes :
          /\ Spend(Cost(o # "ok"))
          /\ lm' = [lm EXCEPT !.pc = IF o = "ok" THEN "sc_write"
                                     ELSE "returned"]
    /\ UNCHANGED <<caches, fm, maps>>
    /\ LoadMapsFrame

\* Line 254 and part_004, lines 368-379: fs.writeJSON resolves or rejects.
SaveCheckedWrite ==
    /\ lm.pc = "sc_write"
    /\ \E o \in FsOutcomes :
          /\ Spend(Cost(o # "ok"))
          /\ caches' = IF o = "ok"
                       THEN [caches EXCEPT !["checked"] =
                                Some(CacheFile(maps, lm.timestamp))]
                       ELSE caches
          /\ lm' = [lm EXCEPT !.pc = "returned"]
    /\ UNCHANGED <<fm, maps>>
    /\ LoadMapsFrame

LoadMapsStep ==
    \/ LoadCheckedExists \/ LoadCheckedRead \/ LoadMapsFetched
    \/ CheckLocalFolder \/ CheckLocalReaddir \/ CheckLocalStat
    \/ SaveCheckedEnsureDir \/ SaveCheckedWrite

\* The sizes a map file of the folder may have when the model starts.
LocalSizes(n) ==
    {NoFile} \cup IF n \in CatalogNames THEN {Catalog[n], Catalog[n] + 1}
                  ELSE {}

\* The maps folder when the model starts: maps of earlier downloads.
LocalDirs == {f \in [Paths -> {NoFile} \cup UNION {LocalSizes(n) : n \in Names}] :
                 \A p \in Paths :
                    \/ f[p] = NoFile
                    \/ \E n \in Names : p = MapPath(n) /\ f[p] \in LocalSizes(n)}

CatalogInit ==
    /\ ServersInit
    /\ csgoPath \in BOOLEAN
    /\ bulkDownloadProgress = InitBulk
    /\ packageDownloadProgress = InitPackage
    /\ packageDownloadCancelled = FALSE
    /\ files \in LocalDirs
    /\ bt = [r \in Runs |-> IdleBt]
    /\ ar = [r \in Runs |-> IdleAr]
    /\ cx = [r \in Runs |-> "idle"]
    /\ caches \in {[c \in {"maps", "checked"} |->
                        IF c = "maps" THEN m ELSE k] :
                     m \in {None, Some(OldCache)},
                     k \in {None, Some(OldCheckedCache)}}
    /\ now = Now0
    /\ fm = IdleFm
    /\ lm = IdleLm
    /\ maps = <<>>
    /\ used = [names |-> 0, batches |-> 0, faults |-> 0, archives |-> 0,
               loads |-> 0, ticks |-> 0]

NextCatalog ==
    \/ \E forceRefresh \in BOOLEAN : InvokeLoadMaps(forceRefresh)
    \/ LoadMapsStep
    \/ FetchMapsListStep
    \/ \E d \in ClockSteps : Tick(d)

SpecCatalog == CatalogInit /\ [][NextCatalog]_vars

(***************************************************************************)
(* The batch path on its own, one run at a time.                           *)
(***************************************************************************)
BatchItemStep(r) ==
    \/ Bz2Fetch(r) \/ Bz2Body(r) \/ Bz2Write(r) \/ DecRead(r) \/ DecWrite(r)
    \/ DecRemove(r) \/ Bz2Stat(r) \/ Bz2Remove(r)
    \/ BspFetch(r) \/ BspRead(r) \/ BspBody(r) \/ BspWrite(r) \/ BspStat(r)
    \/ BspRemove(r)

BatchRunStep(r) ==
    \/ BatchLoadSettings(r) \/ BatchGetMapsFolder(r) \/ BatchEnsureDir(r)
    \/ BatchFetchMapsList(r) \/ BatchItemStep(r)

BatchInit ==
    /\ Init
    /\ caches = [c \in {"maps", "checked"} |-> None]

Next ==
    \E r \in OneRun :
        \/ \E mapNames \in NameLists : InvokeBatch(r, mapNames)
        \/ BatchRunStep(r)

Spec == BatchInit /\ [][Next]_vars

(***************************************************************************)
(* The archive path with its cancel handler, one download run at a time.   *)
(***************************************************************************)
ArchiveRunStep(r) ==
    \/ ArchiveLoadSettings(r) \/ ArchiveGetMapsFolder(r) \/ ArchiveEnsureDir(r)
    \/ ArchiveFetch(r) \/ ArchiveRead(r) \/ ArchiveBody(r) \/ ArchiveWrite(r)
    \/ ArchiveCancelExists(r) \/ ArchiveCancelRemove(r)

CancelRunStep(r) ==
    \/ CancelExistsMaps(r) \/ CancelRemoveMaps(r) \/ CancelExistsChecked(r)
    \/ CancelRemoveChecked(r)

NextArchive ==
    \E r \in OneRun :
        \/ InvokeArchive(r)
        \/ ArchiveRunStep(r)
        \/ InvokeCancel(r)
        \/ CancelRunStep(r)

SpecArchive == Init /\ [][NextArchive]_vars

\* Every promise a download-map-package run awaits settles: a run that can
\* take a step takes one. Nothing obliges the renderer to invoke a handler.
SpecArchiveLive ==
    SpecArchive /\ \A r \in OneRun : WF_vars(ArchiveRunStep(r))

(***************************************************************************)
(* The batch path while the renderer may also call cancel-package-download *)
(* (the cancel button of the package download).                            *)
(***************************************************************************)
\* The state before any handler has run, with the path set, the cache
\* files given and all but one fault of the environment's budget taken as
\* spent.
OneFaultInit(cacheFiles) ==
    /\ ServersInit
    /\ csgoPath = TRUE
    /\ bulkDownloadProgress = InitBulk
    /\ packageDownloadProgress = InitPackage
    /\ packageDownloadCancelled = FALSE
    /\ files = [p \in Paths |-> NoFile]
    /\ bt = [r \in Runs |-> IdleBt]
    /\ ar = [r \in Runs |-> IdleAr]
    /\ cx = [r \in Runs |-> "idle"]
    /\ caches = cacheFiles
    /\ now = Now0
    /\ fm = IdleFm
    /\ lm = IdleLm
    /\ maps = <<>>
    /\ used = [names |-> 0, batches |-> 0, faults |-> MaxFaults - 1,
               archives |-> 0, loads |-> 0, ticks |-> 0]

\* Both cache files are there.
BatchCancelInit ==
    OneFaultInit([c \in {"maps", "checked"} |->
                     IF c = "maps" THEN Some(OldCache)
                     ELSE Some(OldCheckedCache)])

\* One batch, and the cancel call that sets the flag.
NextBatchCancel ==
    \E r \in OneRun :
        \/ \E mapNames \in NameLists :
              used.batches = 0 /\ InvokeBatch(r, mapNames)
        \/ BatchRunStep(r)
        \/ ~packageDownloadCancelled /\ InvokeCancel(r)
        \/ CancelRunStep(r)

SpecBatchCancel == BatchCancelInit /\ [][NextBatchCancel]_vars

\* Every promise a download-missing-maps run awaits settles.
SpecBatchCancelLive ==
    SpecBatchCancel /\ \A r \in OneRun : WF_vars(BatchRunStep(r))

(***************************************************************************)
(* The renderer's map page (src/unnamed/part_004): the list is loaded, the *)
(* maps that are missing or of another size are handed to                  *)
(* download-missing-maps, and the list is loaded again.                    *)
(***************************************************************************)
\* part_004, lines 392 and 405: the names of the maps the page takes for
\* missing.
MissingMaps(list) ==
    LET missing == SelectSeq(list, LAMBDA map :
                       map.status = "missing" \/ map.status = "size_mismatch")
    IN [i \in 1..Len(missing) |-> missing[i].name]

\* part_004, lines 383-406: downloadMissingMaps up to its await.
DownloadMissingMaps(r) ==
    /\ csgoPath
    /\ lm.pc \in {"idle", "returned"}
    /\ Len(MissingMaps(maps)) > 0
    /\ InvokeBatch(r, MissingMaps(maps))

\* part_004, lines 306 and 415: loadMaps is called by the page, on mount, by
\* the refresh button or after a batch.
PageLoadMaps(forceRefresh) ==
    /\ \A r \in Runs : bt[r].pc \in {"idle", "returned"}
    /\ InvokeLoadMaps(forceRefresh)

PageInit == Init /\ csgoPath

NextPage ==
    \/ \E forceRefresh \in BOOLEAN : PageLoadMaps(forceRefresh)
    \/ LoadMapsStep
    \/ FetchMapsListStep
    \/ \E r \in OneRun : DownloadMissingMaps(r) \/ BatchRunStep(r)

SpecPage == PageInit /\ [][NextPage]_vars

(***************************************************************************)
(* The batch path called again while a batch is running: the handler is    *)
(* not serialised, the second invocation runs between the awaits of the    *)
(* first.                                                                  *)
(***************************************************************************)
OverlapInit == OneFaultInit([c \in {"maps", "checked"} |-> None])

\* The lists of the two calls: two names of the catalog, then one.
OverlapLists(r) == [1..(3 - r) -> CatalogNames]

\* Run 2 is the call made while run 1 is in flight; each is called once.
NextOverlap ==
    \E r \in Runs :
        \/ \E mapNames \in OverlapLists(r) :
              /\ bt[r].pc = "idle"
              /\ r = 2 => bt[1].pc \notin {"idle", "returned"}
              /\ InvokeBatch(r, mapNames)
        \/ BatchRunStep(r)

SpecOverlap == OverlapInit /\ [][NextOverlap]_vars

(***************************************************************************)
(* Both download handlers while settings.json holds no csgoPath (it was    *)
(* never set, or the file is gone: loadSettings then yields {}). The       *)
(* trackers, the flag and the folder are as earlier runs may have left     *)
(* them.                                                                   *)
(***************************************************************************)
\* The batch tracker after a batch of "a" alone that completed.
EndedBulk ==
    [SeedBulk(<<"a">>) EXCEPT !.completed = 1, !.downloading = FALSE,
                              !.maps[1].status = "completed",
                              !.maps[1].progress = One]

\* The archive tracker after a download that succeeded (lines 947-948).
EndedPackage == [InitPackage EXCEPT !.progress = One]

NoPathInit ==
    /\ ServersInit
    /\ csgoPath = FALSE
    /\ bulkDownloadProgress \in {InitBulk, EndedBulk}
    /\ packageDownloadProgress \in {InitPackage, EndedPackage}
    /\ packageDownloadCancelled \in BOOLEAN
    /\ files \in {f \in [Paths -> {NoFile, Catalog["a"], PackageLen}] :
                     /\ f[MapPath("a")] \in {NoFile, Catalog["a"]}
                     /\ f[PackagePath] \in {NoFile, PackageLen}
                     /\ \A p \in Paths \ {MapPath("a"), PackagePath} :
                           f[p] = NoFile}
    /\ bt = [r \in Runs |-> IdleBt]
    /\ ar = [r \in Runs |-> IdleAr]
    /\ cx = [r \in Runs |-> "idle"]
    /\ caches = [c \in {"maps", "checked"} |-> None]
    /\ now = Now0
    /\ fm = IdleFm
    /\ lm = IdleLm
    /\ maps = <<>>
    /\ used = [names |-> 0, batches |-> 0, faults |-> 0, archives |-> 0,
               loads |-> 0, ticks |-> 0]

NextNoPath ==
    \E r \in OneRun :
        \/ \E mapNames \in NameLists : InvokeBatch(r, mapNames)
        \/ BatchLoadSettings(r)
        \/ InvokeArchive(r)
        \/ ArchiveLoadSettings(r)

SpecNoPath == NoPathInit /\ [][NextNoPath]_vars

(***************************************************************************)
(* GSIServer (part_009, lines 1000-1116) and OverlayServerImpl             *)
(* (overlay-server.ts): start, tryStartServer, stop and getStatus, and the *)
(* handlers of gsi-handler.ts and overlay-handler.ts that call them.       *)
(* server.listen is asynchronous: the listening or error event of a        *)
(* listener arrives in a later turn of the event loop than the call, and   *)
(* other handlers may run in between.                                      *)
(***************************************************************************)
ServerFrame == UNCHANGED <<csgoPath, bulkDownloadProgress,
                           packageDownloadProgress, packageDownloadCancelled,
                           files, bt, ar, cx, caches, catalogVars>>

\* getStatus, without the url the overlay server derives from port.
GetStatus(s) == [running |-> servers[s].isRunning, port |-> servers[s].port]

\* What gsi:start-server and overlay:start-server return; error undefined
\* is written "", and the overlay's url is a function of port.
StartResult(success, port, error) ==
    [success |-> success, port |-> port, error |-> error]

NotRunningError == "GSI server is not running. Please start GSI server first."
NoPortError == "Could not find available port"
ConfigWriteError == "Error writing GSI config"

\* The step of call q of server s ends with fields and locals
\* res = <<fields', locals'>>.
ServerStep(s, q, res) ==
    /\ servers' = [servers EXCEPT ![s] = res[1]]
    /\ sr' = [sr EXCEPT ![s][q] = res[2]]

\* start has resolved with port and its caller goes on: gsi:start-server and
\* autoStartGsiIfEnabled to writeGSIConfig, overlay:start-server to its
\* return, the auto-start of the overlay to its log line.
AfterStart(s, run, port) ==
    IF s = "gsi"
    THEN [run EXCEPT !.pc = "writeConfig", !.port = port]
    ELSE [run EXCEPT !.pc = "returned", !.port = port,
                     !.ret = IF run.caller = "ipc"
                             THEN Some(StartResult(TRUE, port, ""))
                             ELSE None]

\* start has thrown and its caller's catch runs.
AfterStartFailed(s, run) ==
    [run EXCEPT !.pc = "returned", !.port = NoPort,
                !.ret = IF run.caller = "ipc"
                        THEN Some(StartResult(FALSE, NoPort, NoPortError))
                        ELSE None]

\* start up to its first await: the port of a running server is returned,
\* else tryStartServer is called with the first port.
Start(s, run) ==
    IF servers[s].isRunning /\ servers[s].port # NoPort
    THEN <<servers[s], AfterStart(s, run, servers[s].port)>>
    ELSE <<IF s = "overlay" THEN [servers[s] EXCEPT !.gsiServer = TRUE]
           ELSE servers[s],
           [run EXCEPT !.pc = "listen", !.port = StartPort(s)]>>

\* The listening callback sets this.server and resolves, and start sets port
\* and isRunning and returns the port.
Listening(s, run) ==
    <<[servers[s] EXCEPT !.server = run.port, !.port = run.port,
                         !.isRunning = TRUE],
      AfterStart(s, run, run.port)>>

\* The error event rejects: start goes on to the next port, or throws after
\* the last one.
ListenFailed(s, run) ==
    IF run.port = MaxPort(s) THEN <<servers[s], AfterStartFailed(s, run)>>
    ELSE <<servers[s], [run EXCEPT !.port = @ + 1]>>

\* The promise of tryStartServer settles. A port held by a listener of this
\* program is in use; any port may be in use by another program.
ListenEvent(s, q) ==
    /\ sr[s][q].pc = "listen"
    /\ LET run == sr[s][q]
           held == run.port \in listeners[s]
       IN \E o \in {"listening", "error"} :
             /\ o = "listening" => ~held
             /\ Spend(Cost(o = "error" /\ ~held))
             /\ ServerStep(s, q, IF o = "listening" THEN Listening(s, run)
                                 ELSE ListenFailed(s, run))
             /\ listeners' = IF o = "listening"
                             THEN [listeners EXCEPT ![s] = @ \cup {run.port}]
                             ELSE listeners
    /\ UNCHANGED <<gsiServer, telemetry, response, boot>>
    /\ ServerFrame

\* stop: the listener this.server refers to is closed and the fields are
\* reset.
ServerStop(s) ==
    /\ listeners' = [listeners EXCEPT ![s] = @ \ {servers[s].server}]
    /\ servers' = [servers EXCEPT ![s] = InitServer]

\* gsi:start-server up to the await of start.
GsiStartServer(q) ==
    /\ sr["gsi"][q].pc \in {"idle", "returned"}
    /\ gsiServer' = TRUE
    /\ ServerStep("gsi", q, Start("gsi", IdleSr))
    /\ UNCHANGED <<listeners, telemetry, response, boot, used>>
    /\ ServerFrame

\* autoStartGsiIfEnabled up to the await of start: settings.json is read,
\* and with gsiAutoStart true the server is started unless it is running.
AutoStartGsi(q) ==
    /\ ~boot
    /\ boot' = TRUE
    /\ sr["gsi"][q].pc \in {"idle", "returned"}
    /\ \E gsiAutoStart \in BOOLEAN, overlayEnabled \in BOOLEAN :
          IF gsiAutoStart
          THEN /\ gsiServer' = TRUE
               /\ IF ~GetStatus("gsi").running
                  THEN ServerStep("gsi", q,
                          Start("gsi",
                                [IdleSr EXCEPT !.caller = "auto",
                                               !.overlayEnabled = overlayEnabled]))
                  ELSE UNCHANGED <<servers, sr>>
          ELSE UNCHANGED <<gsiServer, servers, sr>>
    /\ UNCHANGED <<listeners, telemetry, response, used>>
    /\ ServerFrame

\* writeGSIConfig resolves (it catches its own errors).
GsiWriteConfig(q) ==
    /\ sr["gsi"][q].pc = "writeConfig"
    /\ \E writeOk \in BOOLEAN :
          LET run == sr["gsi"][q]
          IN sr' = [sr EXCEPT !["gsi"][q] =
                      IF run.caller = "ipc"
                      THEN [run EXCEPT !.pc = "saveAutoStart",
                                       !.ret = Some(StartResult(TRUE, run.port,
                                                  IF writeOk THEN ""
                                                  ELSE ConfigWriteError))]
                      ELSE IF run.overlayEnabled
                      THEN [run EXCEPT !.pc = "autoImport"]
                      ELSE [run EXCEPT !.pc = "returned"]]
    /\ UNCHANGED <<gsiServer, servers, listeners, telemetry, response, boot,
                   used>>
    /\ ServerFrame

\* saveGsiAutoStart(true) resolves (it catches its own errors) and
\* gsi:start-server returns the result it has built.
GsiSaveAutoStart(q) ==
    /\ sr["gsi"][q].pc = "saveAutoStart"
    /\ sr' = [sr EXCEPT !["gsi"][q].pc = "returned"]
    /\ UNCHANGED <<gsiServer, servers, listeners, telemetry, response, boot,
                   used>>
    /\ ServerFrame

\* The import of overlay-server resolves and the overlay's status is read:
\* the 500 ms timer is set unless the overlay runs.
AutoImport(q) ==
    /\ sr["gsi"][q].pc = "autoImport"
    /\ sr' = [sr EXCEPT !["gsi"][q].pc =
                IF ~GetStatus("overlay").running THEN "autoDelay"
                ELSE "returned"]
    /\ UNCHANGED <<gsiServer, servers, listeners, telemetry, response, boot,
                   used>>
    /\ ServerFrame

\* The timer fires and overlayServer.start(server, 4000, 4100) is called.
AutoDelay(q) ==
    /\ sr["gsi"][q].pc = "autoDelay"
    /\ sr["overlay"][q].pc \in {"idle", "returned"}
    /\ LET res == Start("overlay", [IdleSr EXCEPT !.caller = "auto"])
       IN /\ servers' = [servers EXCEPT !["overlay"] = res[1]]
          /\ sr' = [sr EXCEPT !["gsi"][q].pc = "returned",
                              !["overlay"][q] = res[2]]
    /\ UNCHANGED <<gsiServer, listeners, telemetry, response, boot, used>>
    /\ ServerFrame

\* gsi:stop-server: stop is called on the singleton; saveGsiAutoStart(false)
\* and the return touch none of the fields.
GsiStopServer ==
    /\ gsiServer' = TRUE
    /\ ServerStop("gsi")
    /\ UNCHANGED <<sr, telemetry, response, boot, used>>
    /\ ServerFrame

\* gsi:get-status: getGSIServer() creates the singleton, getStatus reads it.
GsiGetStatus ==
    /\ gsiServer' = TRUE
    /\ UNCHANGED <<servers, listeners, sr, telemetry, response, boot, used>>
    /\ ServerFrame

\* overlay:start-server up to its first await.
OverlayStartServer(q) ==
    /\ sr["overlay"][q].pc \in {"idle", "returned"}
    /\ ServerStep("overlay", q,
          IF ~gsiServer
          THEN <<servers["overlay"],
                 [IdleSr EXCEPT !.pc = "returned",
                                !.ret = Some(StartResult(FALSE, NoPort,
                                                         NotRunningError))]>>
          ELSE IF GetStatus("gsi").running /\ GetStatus("gsi").port # NoPort
          THEN <<servers["overlay"], [IdleSr EXCEPT !.pc = "verify"]>>
          ELSE Start("overlay", IdleSr))
    /\ UNCHANGED <<gsiServer, listeners, telemetry, response, boot, used>>
    /\ ServerFrame

\* verifyAndUpdateGSIConfig resolves (it catches its own errors) and
\* overlayServer.start is called.
OverlayVerify(q) ==
    /\ sr["overlay"][q].pc = "verify"
    /\ ServerStep("overlay", q, Start("overlay", sr["overlay"][q]))
    /\ UNCHANGED <<gsiServer, listeners, telemetry, response, boot, used>>
    /\ ServerFrame

\* overlay:stop-server.
OverlayStopServer ==
    /\ ServerStop("overlay")
    /\ UNCHANGED <<gsiServer, sr, telemetry, response, boot, used>>
    /\ ServerFrame

(***************************************************************************)
(* The request listener of the GSI server (part_009, lines 1032-1070).     *)
(***************************************************************************)
Methods == {"POST", "GET", "OPTIONS"}

\* Request bodies: three JSON texts and two texts that are no JSON.
Bodies == {"1", "2", "null", "", "{"}

\* JSON.parse(body): the value (null is None), or a SyntaxError.
JsonParse(body) ==
    IF body \in {"", "{"} THEN [ok |-> FALSE, value |-> None]
    ELSE [ok |-> TRUE,
          value |-> IF body = "null" THEN None
                    ELSE IF body = "1" THEN Some(1) ELSE Some(2)]

\* Answer storing the body of a POST whether or not it parses.
AnswerStoresBeforeParsing(method, body) ==
    IF method = "POST"
    THEN <<[latestGameState |-> JsonParse(body).value,
            lastDataReceived |-> Some(now)],
           IF JsonParse(body).ok THEN 200 ELSE 400>>
    ELSE <<telemetry, IF method = "OPTIONS" THEN 200 ELSE 405>>

\* The listener answers one request: <<the fields after it, the status>>.
Answer(method, body) ==
    IF method = "OPTIONS" THEN <<telemetry, 200>>
    ELSE IF method = "POST"
    THEN IF JsonParse(body).ok
         THEN <<[latestGameState |-> JsonParse(body).value,
                 lastDataReceived |-> Some(now)], 200>>
         ELSE <<telemetry, 400>>
    ELSE <<telemetry, 405>>

\* A request reaches an open listener of the GSI server and is answered.
GsiRequest(method, body) ==
    /\ listeners["gsi"] # {}
    /\ telemetry' = Answer(method, body)[1]
    /\ response' = [method |-> method, body |-> body,
                    status |-> Answer(method, body)[2]]
    /\ UNCHANGED <<gsiServer, servers, listeners, sr, boot, used>>
    /\ UNCHANGED <<csgoPath, bulkDownloadProgress, packageDownloadProgress,
                   packageDownloadCancelled, files, bt, ar, cx, caches,
                   catalogVars>>

(***************************************************************************)
(* The two servers and their handlers. The handlers' calls are call 1 of   *)
(* each server and the calls of autoStartGsiIfEnabled are call 2, so that  *)
(* a start by a handler and the start at application start may be in       *)
(* flight together.                                                        *)
(***************************************************************************)
ServersOnlyInit == BatchInit /\ csgoPath

NextServers ==
    \/ GsiStartServer(1)
    \/ AutoStartGsi(2)
    \/ OverlayStartServer(1)
    \/ \E q \in Runs :
          \/ GsiWriteConfig(q)
          \/ GsiSaveAutoStart(q)
          \/ AutoImport(q)
          \/ AutoDelay(q)
          \/ OverlayVerify(q)
          \/ \E s \in Servers : ListenEvent(s, q)
    \/ GsiStopServer
    \/ GsiGetStatus
    \/ OverlayStopServer

SpecServers == ServersOnlyInit /\ [][NextServers]_vars

(***************************************************************************)
(* The GSI server receiving requests, one call of gsi:start-server at a    *)
(* time.                                                                   *)
(***************************************************************************)
NextTelemetry ==
    \/ \E q \in OneRun :
          \/ GsiStartServer(q)
          \/ GsiWriteConfig(q)
          \/ GsiSaveAutoStart(q)
          \/ ListenEvent("gsi", q)
    \/ GsiStopServer
    \/ \E method \in Methods, body \in Bodies : GsiRequest(method, body)
    \/ \E d \in ClockSteps : Tick(d)

SpecTelemetry == ServersOnlyInit /\ [][NextTelemetry]_vars

(***************************************************************************)
(* Properties of the batch path, checked under Spec.                       *)
(***************************************************************************)
Bz2Pcs == {"bz2_fetch", "bz2_body", "bz2_write", "dec_read", "dec_write",
           "dec_remove", "bz2_stat", "bz2_rm"}
DirectPcs == {"bsp_fetch", "bsp_read", "bsp_body", "bsp_write", "bsp_stat",
              "bsp_rm"}
ItemPcs == Bz2Pcs \cup DirectPcs

\* Run r has returned the summary of a batch it seeded.
BatchEnded(r) ==
    /\ bt[r].pc = "returned"
    /\ bt[r].ret[1].message.kind = "Downloaded"

StatusCount(status) ==
    Cardinality({i \in 1..Len(bulkDownloadProgress.maps) :
                    bulkDownloadProgress.maps[i].status = status})

\* The step took no fault of the environment.
NoFaultStep == used'.faults = used.faults

\* C1: after startBatch has returned from a seeded batch of N names,
\* completed + failed = N = total, whatever succeeded and failed.
C1_CountsAddUpToTotal ==
    \A r \in Runs :
        BatchEnded(r) =>
            /\ bulkDownloadProgress.total = Len(bt[r].mapNames)
            /\ bulkDownloadProgress.completed + bulkDownloadProgress.failed
                   = bulkDownloadProgress.total

\* C2: after startBatch has returned, every entry of the session is
\* completed or failed, also when a name occurs more than once in the list.
C2_NoItemLeftPendingOrDownloading ==
    \A r \in Runs :
        BatchEnded(r) =>
            \A i \in 1..Len(bulkDownloadProgress.maps) :
                bulkDownloadProgress.maps[i].status \in {"completed", "failed"}

\* The messages the direct attempt can fail with from position t.
DirectFailures(t) ==
    CASE t.pc = "bsp_fetch" ->
            {NetworkError} \cup {HttpError(st) : st \in HttpStatuses \ {200}}
      [] t.pc \in {"bsp_read", "bsp_body"} -> {NetworkError}
      [] t.pc \in {"bsp_write", "bsp_stat"} -> {FsError}
      [] t.pc = "bsp_rm" ->
            {FsError, SizeMismatch(ExpectedSize(t), t.statSize)}
      [] OTHER -> {}

\* C3: a step of the compressed attempt never fails the item: it stays in
\* the compressed attempt, or hands the same item on to the direct fetch
\* with status downloading, or completes it. An item is failed only by a
\* step of the direct attempt, with that attempt's message, and that step
\* ends the item.
C3_CompressedFailureFallsBackToDirect ==
    [][\A r \in Runs :
          LET t == bt[r]
              t2 == bt'[r]
              b == bulkDownloadProgress
              b2 == bulkDownloadProgress'
          IN /\ t.pc \in Bz2Pcs =>
                  /\ b2.failed = b.failed
                  /\ \A i \in 1..Len(b.maps) :
                        b.maps[i].status # "failed"
                            => b2.maps[i].status # "failed"
                  /\ \/ /\ t2.idx = t.idx
                        /\ t2.pc \in Bz2Pcs \cup {"bsp_fetch"}
                        /\ b2.maps[t.mp].status = "downloading"
                        /\ b2.completed = b.completed
                     \/ /\ t.pc = "bz2_stat"
                        /\ b2.completed = b.completed + 1
                        /\ t2.pc = "returned" \/ t2.idx = t.idx + 1
             /\ (t.pc \in ItemPcs /\ b2.failed > b.failed) =>
                  /\ t.pc \in DirectPcs
                  /\ b2.maps[t.mp].error \in
                        {Some(e) : e \in DirectFailures(t)}
                  /\ t2.pc = "returned" \/ t2.idx = t.idx + 1
                  /\ t2.pc = "returned" => b2.maps[t.mp].status = "failed"
      ]_vars

\* C3 witness: an item under the threshold whose compressed attempt failed
\* (the archive did not decode, its file is still there) and whose direct
\* attempt failed after it: the item is failed with the direct message.
C3_Witness ==
    \E r \in Runs :
        /\ BatchEnded(r)
        /\ bt[r].mapNames = <<"a">>
        /\ files[MapBz2Path("a")] # NoFile
        /\ bulkDownloadProgress.maps[1].status = "failed"
        /\ bulkDownloadProgress.maps[1].error = Some(HttpError(500))

\* C4: after a batch has ended, failed is the number of failed items and
\* completed is the number of completed items (three names of which only
\* the second fails end with completed = 2, failed = 1).
C4_CountersMatchItemStatuses ==
    \A r \in Runs :
        BatchEnded(r) =>
            /\ bulkDownloadProgress.failed = StatusCount("failed")
            /\ bulkDownloadProgress.completed = StatusCount("completed")

\* C5: downloading goes from true to false only in a step of a run that is
\* at the last name of its list, when every name of the list has left
\* pending; and a failed item that is not the last is followed at once by
\* the next name, with downloading still true.
C5_FailureNeverStopsTheBatch ==
    [][\A r \in Runs :
          LET t == bt[r]
              b == bulkDownloadProgress
              b2 == bulkDownloadProgress'
          IN /\ (t.pc \in ItemPcs /\ b.downloading /\ ~b2.downloading) =>
                  /\ t.idx = Len(t.mapNames)
                  /\ \A i \in 1..Len(t.mapNames) :
                        b.maps[FindMap(b.maps, t.mapNames[i])].status
                            # "pending"
             /\ (b.downloading /\ ~b2.downloading) =>
                  \E q \in Runs : bt[q].pc \in ItemPcs
             /\ (t.pc \in ItemPcs /\ b2.failed > b.failed
                    /\ t.idx < Len(t.mapNames)) =>
                  /\ b2.downloading
                  /\ bt'[r].idx = t.idx + 1
                  /\ bt'[r].pc \in {"bz2_fetch", "bsp_fetch"}
                  /\ b2.currentMap = Some(t.mapNames[t.idx + 1])
      ]_vars

\* C5 witness: a batch of three names has ended, its first item failed and
\* the two after it were still fetched.
C5_Witness ==
    \E r \in Runs :
        /\ BatchEnded(r)
        /\ Len(bulkDownloadProgress.maps) = 3
        /\ bulkDownloadProgress.maps[1].status = "failed"
        /\ bulkDownloadProgress.maps[2].status = "completed"
        /\ bulkDownloadProgress.maps[3].status = "completed"
        /\ ~bulkDownloadProgress.downloading

\* C6: a failed item is recorded in its error field and counted; a run in
\* its item loop returns nothing but the {success, message} summary, never
\* the handler's error result; and once no run is in its loop or about to
\* seed, the items and counters of the session stay as they are.
C6_ItemFailureStaysLocal ==
    [][\A r \in Runs :
          LET t == bt[r]
              t2 == bt'[r]
              b == bulkDownloadProgress
              b2 == bulkDownloadProgress'
          IN /\ (t.pc \in ItemPcs /\ b2.failed > b.failed) =>
                  /\ b2.maps[t.mp].error # None
                  /\ t2.pc \in ItemPcs \cup {"returned"}
             /\ (t.pc \in ItemPcs /\ t2.pc = "returned") =>
                  /\ t2.ret = Some([success |-> b2.failed = 0,
                                    message |-> Summary(b2.completed,
                                                        b2.failed)])
                  /\ \A i \in 1..Len(b2.maps) :
                        b2.maps[i].status = "failed"
                            => b2.maps[i].error # None
                  /\ StatusCount("failed")' > 0 => b2.failed > 0
             /\ (\A q \in Runs : bt[q].pc \notin ItemPcs \cup {"fetchMapsList"})
                  => /\ b2.maps = b.maps
                     /\ b2.total = b.total
                     /\ b2.completed = b.completed
                     /\ b2.failed = b.failed
      ]_vars

\* C6 witness: the batch has ended with a failed item, a second call is in
\* its preamble, and the failed item with its error is still in the session.
C6_Witness ==
    \E r \in Runs :
        /\ bt[r].pc = "ensureDir"
        /\ ~bulkDownloadProgress.downloading
        /\ \E i \in 1..Len(bulkDownloadProgress.maps) :
              /\ bulkDownloadProgress.maps[i].status = "failed"
              /\ bulkDownloadProgress.maps[i].error = Some(NetworkError)

\* C7: with a known expected size, in the compressed and in the direct
\* attempt, a file within 1048576 bytes of the expected size completes the
\* item and stays; a file 1048577 bytes or more away is removed first, and
\* only the step after the removal signals the mismatch.
C7_ToleranceIsOneMiBBothWays ==
    [][\A r \in Runs :
          bt[r].pc \in ItemPcs =>
             LET t == bt[r]
                 t2 == bt'[r]
                 b == bulkDownloadProgress
                 b2 == bulkDownloadProgress'
                 e == ExpectedSize(t)
                 path == MapPath(MapNameOf(t))
                 size == files[path]
             IN /\ (t.pc \in {"bz2_stat", "bsp_stat"} /\ e > 0 /\ NoFaultStep
                       /\ Abs(size - e) <= 1048576) =>
                     /\ b2.completed = b.completed + 1
                     /\ b2.failed = b.failed
                     /\ files' = files
                /\ (t.pc \in {"bz2_stat", "bsp_stat"} /\ e > 0 /\ NoFaultStep
                       /\ Abs(size - e) >= 1048577) =>
                     /\ t2.pc = IF t.pc = "bz2_stat" THEN "bz2_rm" ELSE "bsp_rm"
                     /\ t2.idx = t.idx
                     /\ b2 = b
                     /\ files' = files
                /\ (t.pc \in {"bz2_rm", "bsp_rm"} /\ NoFaultStep) =>
                     /\ files'[path] = NoFile
                     /\ t.pc = "bz2_rm" => (t2.pc = "bsp_fetch" /\ b2 = b)
                     /\ t.pc = "bsp_rm" =>
                          /\ b2.failed > b.failed
                          /\ b2.maps[t.mp].error =
                                Some(SizeMismatch(e, t.statSize))
                /\ (b2.failed > b.failed
                       /\ b2.maps[t.mp].error[1].kind = "SizeMismatch") =>
                     /\ t.pc = "bsp_rm"
                     /\ Abs(t.statSize - e) >= 1048577
                     /\ files'[path] = NoFile
      ]_vars

\* C7 witness: in one batch, "a" was accepted exactly 1 MiB over its
\* expected size and "b" was rejected 1 MiB + 1 byte under it, its file
\* removed.
C7_Witness ==
    \E r \in Runs :
        /\ BatchEnded(r)
        /\ bt[r].mapNames = <<"a", "b">>
        /\ bulkDownloadProgress.maps[1].status = "completed"
        /\ files[MapPath("a")] = Catalog["a"] + 1048576
        /\ bulkDownloadProgress.maps[2].status = "failed"
        /\ bulkDownloadProgress.maps[2].error =
              Some(SizeMismatch(Catalog["b"], Catalog["b"] - 1048577))
        /\ files[MapPath("b")] = NoFile

\* C8: for an item whose expected size is unknown (0), no strategy rejects
\* the fetched file for its size: no run is ever about to remove it.
C8_UnknownSizeNeverRejected ==
    \A r \in Runs :
        bt[r].pc \in {"bz2_rm", "bsp_rm"} => ExpectedSize(bt[r]) > 0

\* C9: an item is entered at the compressed fetch exactly when its expected
\* size is under 157286400 bytes, else at the direct fetch; no step of the
\* compressed attempt ever runs for an item at or over that size.
C9_StrategyByThreshold ==
    [][\A r \in Runs :
          LET t == bt[r]
              t2 == bt'[r]
          IN /\ (t2.pc \in ItemPcs /\ (t.pc \notin ItemPcs \/ t2.idx # t.idx))
                  => t2.pc = IF ExpectedSize(t2) < 157286400
                             THEN "bz2_fetch" ELSE "bsp_fetch"
             /\ t2.pc \in Bz2Pcs => ExpectedSize(t2) < 157286400
      ]_vars

\* C9 witness: "b", expected at exactly the threshold, went through on the
\* direct fetch alone, and "a", one byte under it, is at its compressed
\* fetch.
C9_Witness ==
    \E r \in Runs :
        /\ bt[r].mapNames = <<"b", "a">>
        /\ bt[r].idx = 2
        /\ bt[r].pc = "bz2_fetch"
        /\ ExpectedSize(bt[r]) = 157286399
        /\ bulkDownloadProgress.maps[1].status = "completed"
        /\ files[MapBz2Path("b")] = NoFile

\* C16: in the state in which download-missing-maps returns, after the last
\* item or from its catch or before it has begun, the session has
\* downloading = false, currentMap = null and downloadSpeed = null.
C16_BatchReturnsWithSessionAtRest ==
    [][\A r \in Runs :
          (bt[r].pc # "returned" /\ bt'[r].pc = "returned") =>
             /\ ~bulkDownloadProgress'.downloading
             /\ bulkDownloadProgress'.currentMap = None
             /\ bulkDownloadProgress'.downloadSpeed = None
      ]_vars

\* C16 witness: a first batch ran to its end with a completed item, and a
\* second call was interrupted by the rejection of its catalog request; the
\* session of the first batch is still there, at rest.
C16_Witness ==
    \E r \in Runs :
        /\ bt[r].pc = "returned"
        /\ bt[r].ret = Some([success |-> FALSE,
                             message |-> BatchErrorMessage(NetworkError)])
        /\ bulkDownloadProgress.completed = 1
        /\ ~bulkDownloadProgress.downloading
        /\ bulkDownloadProgress.currentMap = None
        /\ bulkDownloadProgress.downloadSpeed = None

\* C18: within one session (every step but the seeding of a new one) each
\* entry only goes pending -> downloading -> completed or failed: a
\* downloading entry never goes back to pending, and a completed or failed
\* entry keeps its status, progress and error.
C18_ItemStatusOnlyAdvances ==
    [][(\E r \in Runs : bt[r].pc \in ItemPcs) =>
          /\ Len(bulkDownloadProgress'.maps) = Len(bulkDownloadProgress.maps)
          /\ \A i \in 1..Len(bulkDownloadProgress.maps) :
                LET m == bulkDownloadProgress.maps[i]
                    m2 == bulkDownloadProgress'.maps[i]
                IN /\ m2.mapName = m.mapName
                   /\ m.status = "pending" =>
                         m2.status \in {"pending", "downloading"}
                   /\ m.status = "downloading" =>
                         m2.status \in {"downloading", "completed", "failed"}
                   /\ m.status \in {"completed", "failed"} => m2 = m
      ]_vars

\* C19: in the state after the step in which an entry becomes completed (by
\* the compressed or by the direct attempt) or failed, downloadSpeed is null
\* and currentMap is null (the batch has ended) or names the next item,
\* whose entry is downloading with progress 0; and in every state currentMap
\* names no item that has a completed or failed entry.
C19_CurrentMapNeverNamesAFinishedItem ==
    [][/\ \A r \in Runs :
             LET t == bt[r]
                 t2 == bt'[r]
                 b == bulkDownloadProgress
                 b2 == bulkDownloadProgress'
             IN (/\ t.pc \in ItemPcs
                 /\ \/ t2.pc = "returned"
                    \/ t2.idx # t.idx) =>
                   /\ b2.downloadSpeed = None
                   /\ IF t2.pc = "returned"
                      THEN b2.currentMap = None
                      ELSE /\ t2.idx = t.idx + 1
                           /\ b2.currentMap = Some(t.mapNames[t.idx + 1])
                           /\ b2.maps[t2.mp].mapName = t.mapNames[t.idx + 1]
                           /\ b2.maps[t2.mp].status = "downloading"
                           /\ b2.maps[t2.mp].progress = Zero
       /\ \A i \in 1..Len(bulkDownloadProgress'.maps) :
             bulkDownloadProgress'.maps[i].status \in {"completed", "failed"}
                => bulkDownloadProgress'.currentMap
                      # Some(bulkDownloadProgress'.maps[i].mapName)
       /\ \A i \in 1..Len(bulkDownloadProgress.maps) :
             (/\ bulkDownloadProgress.maps[i].status = "downloading"
              /\ Len(bulkDownloadProgress'.maps)
                    = Len(bulkDownloadProgress.maps)
              /\ bulkDownloadProgress'.maps[i].status
                    \in {"completed", "failed"})
                => bulkDownloadProgress'.downloadSpeed = None
      ]_vars

\* C19 witness: "a" was completed by its compressed attempt, which had set
\* a download speed, and the run is at the first request of the next item
\* "b": currentMap names "b" and downloadSpeed is null.
C19_Witness ==
    \E r \in Runs :
        /\ bt[r].mapNames = <<"a", "b">>
        /\ bt[r].idx = 2
        /\ bt[r].pc = "bsp_fetch"
        /\ used.faults = 0
        /\ files[MapPath("a")] = Catalog["a"]
        /\ bulkDownloadProgress.maps[1].status = "completed"
        /\ bulkDownloadProgress.maps[2].status = "downloading"
        /\ bulkDownloadProgress.currentMap = Some("b")
        /\ bulkDownloadProgress.downloadSpeed = None

\* C20: in every state at most one entry of the session is downloading, and
\* an entry has left pending only when every entry before it in the list is
\* completed or failed.
C20_OneAtATimeInListOrder ==
    /\ Cardinality({i \in 1..Len(bulkDownloadProgress.maps) :
                       bulkDownloadProgress.maps[i].status = "downloading"})
           <= 1
    /\ \A i, j \in 1..Len(bulkDownloadProgress.maps) :
          (i < j /\ bulkDownloadProgress.maps[j].status # "pending")
             => bulkDownloadProgress.maps[i].status \in {"completed", "failed"}

(***************************************************************************)
(* Properties of the archive path, checked under SpecArchive.              *)
(***************************************************************************)
\* Positions of a download-map-package run after it has reset the flag and
\* set downloading (line 838-843).
ArchiveActivePcs == {"fetch", "read", "body", "write", "cancel_exists",
                     "cancel_remove"}

\* The step has changed a local of download-map-package run r: the run has
\* taken a step.
ArchiveRunMoved(r) ==
    [ar'[r] EXCEPT !.cancelRequested = ar[r].cancelRequested] # ar[r]

\* C10: when cancel-package-download has set the flag while a download was
\* in progress (after the run's reset, before its return), the run returns
\* with no file at the destination, progress 0 and downloading false.
C10_CancelLeavesNoFile ==
    [][\A r \in Runs :
          (/\ ar[r].pc \in ArchiveActivePcs
           /\ ar'[r].pc = "returned"
           /\ packageDownloadCancelled)
          => /\ files'[PackagePath] = NoFile
             /\ packageDownloadProgress'.progress = Zero
             /\ ~packageDownloadProgress'.downloading
      ]_vars

\* C11: a run that has set downloading to true returns in the end; whenever
\* such a run returns (success, cancellation, HTTP error, network or
\* filesystem exception) downloading is false in the state it returns in; and
\* what it returns is a {success, message} result, with success false and an
\* error message for an error.
C11_ArchiveRunEndsNotDownloading ==
    /\ \A r \in Runs :
          (ar[r].pc \in ArchiveActivePcs) ~> (ar[r].pc = "returned")
    /\ [][\A r \in Runs :
            (ar[r].pc \in ArchiveActivePcs /\ ar'[r].pc = "returned") =>
               /\ ~packageDownloadProgress'.downloading
               /\ LET result == ar'[r].ret[1]
                  IN \/ /\ result.success
                        /\ result.message = PackageDoneMessage
                        /\ NoFaultStep
                        /\ ar[r].pc = "write"
                     \/ /\ ~result.success
                        /\ result.message = CancelledMessage
                        /\ NoFaultStep
                     \/ /\ ~result.success
                        /\ result.message \in
                              {PackageErrorMessage(e) :
                                 e \in {NetworkError, FsError}
                                       \cup {HttpError(st) :
                                                st \in HttpStatuses \ {200}}}
                        /\ ~NoFaultStep
       ]_vars

\* C11 witness: the package request was answered with HTTP 500 after the run
\* had set downloading; the run has returned the error and downloading is
\* false.
C11_Witness ==
    \E r \in Runs :
        /\ ar[r].pc = "returned"
        /\ ar[r].ret = Some([success |-> FALSE,
                             message |-> PackageErrorMessage(HttpError(500))])
        /\ ~packageDownloadProgress.downloading

\* C12: a step of cancel-package-download changes nothing but the cancelled
\* flag (and the handler's own position): the archive session, the batch
\* session, the manifest cache, the checked-maps cache and the files of the
\* maps folder stay as they are, and a download run stays where it is.
C12_CancelOnlySetsFlag ==
    [][(\E r \in Runs : cx'[r] # cx[r]) =>
          /\ packageDownloadProgress' = packageDownloadProgress
          /\ bulkDownloadProgress' = bulkDownloadProgress
          /\ caches' = caches
          /\ files' = files
          /\ \A q \in Runs : ~ArchiveRunMoved(q)
      ]_vars

(***************************************************************************)
(* Properties of the catalog client, checked under SpecCatalog.            *)
(***************************************************************************)
\* The manifest cache exists and is younger than 24 hours.
ValidManifestCache ==
    /\ caches["maps"] # None
    /\ now - caches["maps"][1].timestamp < 86400000

\* C13: the catalog fetch that loadMaps(forceRefresh) makes returns the
\* cached manifest without a network request exactly when a manifest cache
\* younger than 24 hours exists and forceRefresh is false, and otherwise
\* issues the request; and a fetched manifest is written to the cache with
\* the time of the fetch.
C13_CacheOrFetch ==
    [][/\ (/\ fm.pc \in {"exists", "read"}
           /\ fm'.pc \notin {"exists", "read"}
           /\ NoFaultStep) =>
             IF ValidManifestCache /\ ~lm.forceRefresh
             THEN /\ fm'.pc = "returned"
                  /\ fm'.requests = 0
                  /\ fm'.ret = Some(caches["maps"][1].data)
             ELSE /\ fm'.pc = "fetch"
                  /\ fm'.requests = 1
       /\ (fm.pc = "write" /\ NoFaultStep) =>
             /\ caches'["maps"] = Some(CacheFile(fm.data, fm.timestamp))
             /\ fm'.ret = Some(fm.data)
      ]_vars

\* C14: when the catalog request fails (it rejects, or is answered with a
\* status that is not a success) the handler returns the manifest of the
\* cache file, however old, without raising, and leaves the cache file as
\* it is; it raises only when there is no cache file it can read.
C14_FetchFailureFallsBackToCache ==
    [][/\ (fm.pc = "fetch" /\ fm'.fetchFailed) =>
             /\ caches' = caches
             /\ fm'.pc \in {"returned", "catch_exists"}
             /\ fm'.pc = "returned" =>
                   /\ ~fm'.thrown
                   /\ caches["maps"] # None
                   /\ fm'.ret = Some(caches["maps"][1].data)
       /\ (fm.fetchFailed /\ fm.pc \in {"catch_exists", "catch_read"}
              /\ fm' # fm) =>
             /\ caches' = caches
             /\ fm'.pc \in {"returned", "catch_read"}
             /\ fm'.pc = "catch_read" => caches["maps"] # None
             /\ fm'.pc = "returned" =>
                   IF caches["maps"] # None /\ NoFaultStep
                   THEN /\ ~fm'.thrown
                        /\ fm'.ret = Some(caches["maps"][1].data)
                   ELSE fm'.thrown
      ]_vars

\* C14 witness: the request failed while the cache file was 10 days old, and
\* the handler has returned the manifest of that file.
C14_Witness ==
    /\ fm.pc = "returned"
    /\ fm.fetchFailed
    /\ ~fm.thrown
    /\ caches["maps"] # None
    /\ now - caches["maps"][1].timestamp = 864000000
    /\ fm.ret = Some(caches["maps"][1].data)

\* The size of the .bsp file of map n in the maps folder, NoFile for none.
SizeOnDisk(n) == IF n \in Names THEN files[MapPath(n)] ELSE NoFile

\* C15: when loadMaps sets the list, every map of the manifest has the
\* status its expected size and its local record give: a record that exists
\* with the expected size gives downloaded, one that exists with another
\* size gives size_mismatch, no record or a record with exists = false gives
\* missing; the records are those of the folder's .bsp files; and computing
\* the list again from the same manifest and the same folder gives the same
\* list.
C15_StatusIsAFunctionOfSizes ==
    [][(lm.pc \in {"cl_folder", "cl_readdir", "cl_stat"}
           /\ lm'.pc = "sc_ensureDir") =>
          LET localMaps == lm'.localMaps
          IN /\ Len(maps') = Len(lm.mapsList)
             /\ \A i \in 1..Len(maps') :
                   LET m == maps'[i]
                       known == m.name \in DOMAIN localMaps
                                   /\ localMaps[m.name].exists
                   IN /\ m.name = lm.mapsList[i].name
                      /\ m.filesize = lm.mapsList[i].filesize
                      /\ (known /\ localMaps[m.name].filesize = m.filesize)
                            => (m.status = "downloaded"
                                  /\ m.localSize = m.filesize)
                      /\ (known /\ localMaps[m.name].filesize # m.filesize)
                            => (m.status = "size_mismatch"
                                  /\ m.localSize = localMaps[m.name].filesize)
                      /\ ~known => (m.status = "missing"
                                      /\ m.localSize = NoFile)
             /\ (lm.pc = "cl_stat" /\ NoFaultStep) =>
                   /\ DOMAIN localMaps = {n \in Names : SizeOnDisk(n) # NoFile}
                   /\ \A n \in DOMAIN localMaps :
                         localMaps[n] = LocalMapInfo(n, SizeOnDisk(n), TRUE)
             /\ (/\ lm.pc = "cl_stat"
                 /\ NoFaultStep
                 /\ StripStatus(maps) = lm.mapsList
                 /\ \A i \in 1..Len(maps) :
                       maps[i].localSize = SizeOnDisk(maps[i].name))
                   => maps' = maps
      ]_vars

\* C15 witness: loadMaps has computed the list a second time; "a" is on disk
\* one byte over its expected size and is size_mismatch, "b" is on disk with
\* its expected size and is downloaded, as in the list computed before.
C15_Witness ==
    /\ lm.pc = "sc_write"
    /\ used.loads = 2
    /\ caches["checked"] # None
    /\ caches["checked"][1].data = maps
    /\ Len(maps) = 2
    /\ maps[1].status = "size_mismatch"
    /\ maps[1].localSize = maps[1].filesize + 1
    /\ maps[2].status = "downloaded"

(***************************************************************************)
(* Properties of both download handlers without a path, checked under      *)
(* SpecNoPath.                                                             *)
(***************************************************************************)
\* C17: without a csgoPath, download-missing-maps and download-map-package
\* return {success: false} with the configuration message as soon as the
\* settings are loaded, and no step of either changes the batch tracker, the
\* archive tracker, the cancelled flag or a file; neither ever gets to a
\* request.
C17_NoPathNoEffect ==
    [][/\ bulkDownloadProgress' = bulkDownloadProgress
       /\ packageDownloadProgress' = packageDownloadProgress
       /\ packageDownloadCancelled' = packageDownloadCancelled
       /\ files' = files
       /\ caches' = caches
       /\ \A r \in Runs :
             /\ bt[r].pc = "loadSettings" =>
                   \/ bt'[r] = bt[r]
                   \/ /\ bt'[r].pc = "returned"
                      /\ bt'[r].ret = Some([success |-> FALSE,
                                            message |-> ConfigMessage])
             /\ ar[r].pc = "loadSettings" =>
                   \/ ar'[r] = ar[r]
                   \/ /\ ar'[r].pc = "returned"
                      /\ ar'[r].ret = Some([success |-> FALSE,
                                            message |-> ConfigMessage])
             /\ bt'[r].pc \in {"idle", "loadSettings", "returned"}
             /\ ar'[r].pc \in {"idle", "loadSettings", "returned"}
      ]_vars

\* C17 witness: both handlers have returned the configuration message; the
\* session of an earlier batch, the progress of an earlier archive download,
\* a raised flag and the archive file are all as they were.
C17_Witness ==
    \E r \in Runs :
        /\ bt[r].pc = "returned"
        /\ bt[r].ret = Some([success |-> FALSE, message |-> ConfigMessage])
        /\ ar[r].pc = "returned"
        /\ ar[r].ret = Some([success |-> FALSE, message |-> ConfigMessage])
        /\ bulkDownloadProgress = EndedBulk
        /\ packageDownloadProgress = EndedPackage
        /\ packageDownloadCancelled
        /\ files[PackagePath] = PackageLen

(***************************************************************************)
(* Properties of the progress values, checked under SpecArchive and Spec.  *)
(***************************************************************************)
\* The fraction p = <<n, d>> is a number of [0, 1].
InUnitInterval(p) == p[2] > 0 /\ 0 <= p[1] /\ p[1] <= p[2]

\* C21: in every state the progress of every entry of the batch session and
\* the progress of the archive session are in [0, 1], also when the body
\* served is longer than the content-length header says.
C21_ProgressWithinUnitInterval ==
    /\ InUnitInterval(packageDownloadProgress.progress)
    /\ \A i \in 1..Len(bulkDownloadProgress.maps) :
          InUnitInterval(bulkDownloadProgress.maps[i].progress)

(***************************************************************************)
(* Properties of the seeding of a batch, checked under Spec.               *)
(***************************************************************************)
\* C22: in the step in which download-missing-maps, called with N names,
\* gets past its catalog request, the session is replaced by a fresh one
\* before the first item is entered: total = N, completed = 0, failed = 0,
\* one entry per name in list order with progress 0 and error null, every
\* entry pending but the one the first item has just entered, whatever the
\* session before held; downloading is true when there is an item to enter.
C22_BatchStartsFromAFreshSession ==
    [][\A r \in Runs :
          LET t == bt[r]
              t2 == bt'[r]
              b2 == bulkDownloadProgress'
              N == Len(t.mapNames)
          IN (/\ t.pc = "fetchMapsList"
              /\ \/ t2.pc \in ItemPcs
                 \/ t2.pc = "returned" /\ t2.ret[1].message.kind = "Downloaded")
             => /\ b2.total = N
                /\ b2.completed = 0
                /\ b2.failed = 0
                /\ Len(b2.maps) = N
                /\ \A i \in 1..N :
                      /\ b2.maps[i].mapName = t.mapNames[i]
                      /\ b2.maps[i].progress = Zero
                      /\ b2.maps[i].error = None
                      /\ b2.maps[i].status =
                            IF i = 1 THEN "downloading" ELSE "pending"
                /\ b2.downloading = (N > 0)
                /\ N > 0 => (t2.idx = 1 /\ t2.pc \in ItemPcs
                               /\ b2.currentMap = Some(t.mapNames[1]))
                /\ N = 0 => t2.pc = "returned"
      ]_vars

\* C22 witness: a batch of two names ended with "a" completed and "c"
\* failed; a second batch, of "b" alone, has just been seeded and is at the
\* first request of "b": the session holds that one entry and no count.
C22_Witness ==
    \E r \in Runs :
        /\ used.batches = 2
        /\ used.names = 3
        /\ bt[r].mapNames = <<"b">>
        /\ bt[r].pc = "bsp_fetch"
        /\ files[MapPath("a")] # NoFile
        /\ used.faults > 0
        /\ bulkDownloadProgress =
              [total |-> 1, completed |-> 0, failed |-> 0,
               maps |-> <<[mapName |-> "b", progress |-> Zero,
                           status |-> "downloading", error |-> None]>>,
               downloading |-> TRUE, currentMap |-> Some("b"),
               downloadSpeed |-> None]

(***************************************************************************)
(* Properties of one archive download, checked under SpecArchive.          *)
(***************************************************************************)
\* C23: download-map-package issues its request from a session reset to
\* progress 0, downloading true, downloadSpeed null, with the flag false;
\* a write that succeeds puts the accumulated bytes at the destination,
\* sets progress 1 and returns success, and nothing else returns success;
\* a check that finds the flag set (at the top of the read loop, after the
\* loop, before the write) leads to the cancelled result without a write,
\* and no run that has seen the flag set ever gets to the write.
C23_ResetThenWriteUnlessCancelObserved ==
    [][\A r \in Runs :
          LET a == ar[r]
              a2 == ar'[r]
              p2 == packageDownloadProgress'
          IN /\ (a2.pc = "fetch" /\ a.pc # "fetch") =>
                  /\ a.pc = "ensureDir"
                  /\ p2 = [progress |-> Zero, downloading |-> TRUE,
                           downloadSpeed |-> None]
                  /\ ~packageDownloadCancelled'
             /\ (a.pc = "write" /\ ArchiveRunMoved(r) /\ NoFaultStep) =>
                  /\ a.buffer = PackageLen
                  /\ files'[PackagePath] = a.buffer
                  /\ p2.progress = One
                  /\ ~p2.downloading
                  /\ a2.pc = "returned"
                  /\ a2.ret = Some([success |-> TRUE,
                                    message |-> PackageDoneMessage])
             /\ (a2.pc = "returned" /\ a.pc # "returned"
                    /\ a2.ret[1].success) =>
                  (a.pc = "write" /\ NoFaultStep)
             /\ (a.pc \in {"read", "body"} /\ ArchiveRunMoved(r)
                    /\ NoFaultStep /\ packageDownloadCancelled) =>
                  /\ files' = files
                  /\ \/ a2.pc = "cancel_exists"
                     \/ /\ a2.pc = "returned"
                        /\ a2.ret = Some([success |-> FALSE,
                                          message |-> CancelledMessage])
             /\ (a.pc = "fetch" /\ ArchiveRunMoved(r)
                    /\ packageDownloadCancelled) =>
                  /\ files' = files
                  /\ a2.pc \in {"cancel_exists", "body", "returned"}
             /\ (a2.pc = "write" /\ a.pc # "write") =>
                  ~packageDownloadCancelled
             /\ a.pc \in {"cancel_exists", "cancel_remove"} =>
                  /\ files'[PackagePath] \in {files[PackagePath], NoFile}
                  /\ a2.pc \in {"cancel_exists", "cancel_remove", "returned"}
             /\ files'[PackagePath] \notin {files[PackagePath], NoFile} =>
                  \E q \in Runs : ar[q].pc = "write"
      ]_vars

\* C23 witness: a run that met no cancellation has written the whole body
\* to the destination and returned success; progress is 1, the download
\* speed of the last update is still there.
C23_Witness ==
    \E r \in Runs :
        /\ ar[r].pc = "returned"
        /\ ar[r].ret = Some([success |-> TRUE, message |-> PackageDoneMessage])
        /\ files[PackagePath] = PackageLen
        /\ packageDownloadProgress.progress = One
        /\ ~packageDownloadProgress.downloading
        /\ packageDownloadProgress.downloadSpeed # None
        /\ ~packageDownloadCancelled
        /\ used.faults = 0

(***************************************************************************)
(* Properties of the batch path under cancel calls, checked under          *)
(* SpecBatchCancelLive.                                                    *)
(***************************************************************************)
\* C24: a step of cancel-package-download leaves the batch session, the
\* locals of the batch run and the maps folder as they are; a run leaves
\* its item loop only from the last name of its list; and a run in its item
\* loop while the flag is set still comes to the end of the batch, with the
\* first entry of every name of its list completed or failed.
C24_CancelDoesNotTouchTheBatch ==
    /\ [][/\ (cx' # cx \/ packageDownloadCancelled' # packageDownloadCancelled)
               => /\ bulkDownloadProgress' = bulkDownloadProgress
                  /\ bt' = bt
                  /\ files' = files
          /\ \A r \in Runs :
                (bt[r].pc \in ItemPcs /\ bt'[r].pc = "returned") =>
                   /\ bt[r].idx = Len(bt[r].mapNames)
                   /\ bt'[r].ret[1].message.kind = "Downloaded"
         ]_vars
    /\ \A r \in Runs :
          (bt[r].pc \in ItemPcs /\ packageDownloadCancelled)
             ~> (/\ BatchEnded(r)
                 /\ \A i \in 1..Len(bt[r].mapNames) :
                       bulkDownloadProgress.maps[
                          FindMap(bulkDownloadProgress.maps,
                                  bt[r].mapNames[i])].status
                       \in {"completed", "failed"})

\* C24 witness: the cancel handler has just set the flag while the batch of
\* "b" and "a" is at its second item: "b" is completed, "a" is downloading
\* and the session is still downloading.
C24_Witness ==
    \E r \in Runs :
        /\ cx[r] = "exists_maps"
        /\ packageDownloadCancelled
        /\ bt[r].mapNames = <<"b", "a">>
        /\ bt[r].idx = 2
        /\ bt[r].pc = "bz2_body"
        /\ bulkDownloadProgress.downloading
        /\ bulkDownloadProgress.currentMap = Some("a")
        /\ bulkDownloadProgress.completed = 1
        /\ bulkDownloadProgress.maps[1].status = "completed"
        /\ bulkDownloadProgress.maps[2].status = "downloading"

(***************************************************************************)
(* Properties of the map page, checked under SpecPage.                     *)
(***************************************************************************)
\* C25: when the page sets its list after a batch has returned (the folder
\* was read and every file's size taken without a fault), every entry the
\* batch has completed for a map of the catalog with a known size is
\* downloaded in the list computed against that catalog, and is not among
\* the names the page would hand to the next batch.
C25_CompletedIsDownloaded ==
    [][(/\ lm.pc \in {"cl_folder", "cl_readdir", "cl_stat"}
        /\ lm'.pc = "sc_ensureDir"
        /\ NoFaultStep
        /\ \E r \in Runs : bt[r].pc = "returned"
        /\ \A r \in Runs : bt[r].pc \in {"idle", "returned"}) =>
          \A i \in 1..Len(bulkDownloadProgress.maps) :
             LET name == bulkDownloadProgress.maps[i].mapName
             IN (/\ bulkDownloadProgress.maps[i].status = "completed"
                 /\ ExpectedSizeOf(Catalog, name) > 0) =>
                   \A j \in 1..Len(maps') :
                      (/\ maps'[j].name = name
                       /\ maps'[j].filesize = Catalog[name]) =>
                         /\ maps'[j].status = "downloaded"
                         /\ \A k \in 1..Len(MissingMaps(maps')) :
                               MissingMaps(maps')[k] # name
      ]_vars

(***************************************************************************)
(* Properties of the files of one item, checked under Spec.                *)
(***************************************************************************)
\* C26: in every state, an entry of the session that is completed or failed
\* has no <name>.bsp.bz2 file in the maps folder.
C26_NoCompressedFileLeftBehind ==
    \A i \in 1..Len(bulkDownloadProgress.maps) :
        bulkDownloadProgress.maps[i].status \in {"completed", "failed"}
            => files[MapBz2Path(bulkDownloadProgress.maps[i].mapName)] = NoFile

\* p <= q for two progress values (fractions with positive denominators).
FracLeq(p, q) ==
    IF p[2] = q[2] THEN p[1] <= q[1]
    ELSE IF p = Zero THEN q[1] >= 0
    ELSE IF q = Zero THEN p[1] <= 0
    ELSE IF p = One THEN q[1] >= q[2]
    ELSE IF q = One THEN p[1] <= p[2]
    ELSE p[1] * q[2] <= q[1] * p[2]

\* C27: in a step in which a run stays at the same item, an entry that is
\* downloading before and after the step has not lost progress.
C27_ProgressNeverDecreasesWhileDownloading ==
    [][\A r \in Runs :
          (/\ bt[r].pc \in ItemPcs
           /\ bt'[r].pc \in ItemPcs
           /\ bt'[r].idx = bt[r].idx) =>
             \A i \in 1..Len(bulkDownloadProgress.maps) :
                (/\ bulkDownloadProgress.maps[i].status = "downloading"
                 /\ bulkDownloadProgress'.maps[i].status = "downloading") =>
                   FracLeq(bulkDownloadProgress.maps[i].progress,
                           bulkDownloadProgress'.maps[i].progress)
      ]_vars

(***************************************************************************)
(* Properties of overlapping batches, checked under SpecOverlap.           *)
(***************************************************************************)
\* C28: while no item has been counted as failed, the session never counts
\* more items than the total of the call that seeded it: completed + failed
\* <= total, also when a second call has replaced the session while the
\* first call was still in its loop.
C28_SessionCountsOnlyTheLatestCall ==
    bulkDownloadProgress.failed = 0 =>
        bulkDownloadProgress.completed + bulkDownloadProgress.failed
            <= bulkDownloadProgress.total

(***************************************************************************)
(* Properties of cancel calls during an archive download, checked under    *)
(* SpecArchive.                                                            *)
(***************************************************************************)
\* C29: a run of download-map-package during which cancel-package-download
\* was called (at any point after its invocation, its preamble included)
\* and which has got to its download returns, unless the step that ends it
\* is a fault of the environment, the cancelled result.
C29_CancelIsNeverLost ==
    [][\A r \in Runs :
          (/\ ar[r].cancelRequested
           /\ ar[r].pc \in ArchiveActivePcs
           /\ ar'[r].pc = "returned"
           /\ NoFaultStep)
          => ar'[r].ret = Some([success |-> FALSE,
                                message |-> CancelledMessage])
      ]_vars

(***************************************************************************)
(* Properties of the archive tracker at rest, checked under SpecArchive.   *)
(***************************************************************************)
PackageSuccess == [success |-> TRUE, message |-> PackageDoneMessage]

\* C30: with one download-map-package run at a time, a tracker with
\* downloading = false has progress 0 or 1; it has progress 1 only when the
\* whole package is on disk, and the step that puts it there is the return
\* of success after the write; and a run that has got as far as ensureDir
\* and returns a failure (cancelled or caught error) leaves progress 0,
\* downloading false and downloadSpeed null.
C30_RestingProgressIsZeroOrOne ==
    [][LET p == packageDownloadProgress
           p2 == packageDownloadProgress'
       IN /\ ~p2.downloading => p2.progress \in {Zero, One}
          /\ (~p2.downloading /\ p2.progress = One) =>
                /\ files'[PackagePath] = PackageLen
                /\ p2 # p =>
                      \E r \in Runs : /\ ar[r].pc = "write"
                                      /\ ar'[r].pc = "returned"
                                      /\ ar'[r].ret = Some(PackageSuccess)
          /\ \A r \in Runs :
                (/\ ar[r].pc \in ArchiveActivePcs \cup {"ensureDir"}
                 /\ ar'[r].pc = "returned"
                 /\ ar'[r].ret # Some(PackageSuccess))
                => p2 = InitPackage
      ]_vars

\* A second run has been cancelled after the first one had written the
\* package: the tracker is back at progress 0 with no throughput.
C30_Witness ==
    \E r \in Runs :
        /\ ar[r].pc = "returned"
        /\ ar[r].ret = Some([success |-> FALSE, message |-> CancelledMessage])
        /\ used.archives = 2
        /\ files[PackagePath] = PackageLen
        /\ packageDownloadProgress = InitPackage

(***************************************************************************)
(* Properties of a batch that fails before its loop, checked under Spec.   *)
(***************************************************************************)
\* C31: a step in which a run of download-missing-maps ends on a fault at
\* ensureDir or at the catalog request (a rejection, or a body that is no
\* list) returns success = false with the error message, leaves total,
\* completed, failed and the items of the tracker as they were with
\* downloading = false, enters no item and leaves the maps folder alone.
C31_PreambleFailureKeepsSession ==
    [][\A r \in Runs :
          (/\ bt[r].pc \in {"ensureDir", "fetchMapsList"}
           /\ bt'[r].pc = "returned"
           /\ ~NoFaultStep)
          => /\ ~bt'[r].ret[1].success
             /\ bt'[r].ret[1].message \in
                   {BatchErrorMessage(e) : e \in {FsError, NetworkError,
                                                  TypeError}}
             /\ bulkDownloadProgress'.total = bulkDownloadProgress.total
             /\ bulkDownloadProgress'.completed = bulkDownloadProgress.completed
             /\ bulkDownloadProgress'.failed = bulkDownloadProgress.failed
             /\ bulkDownloadProgress'.maps = bulkDownloadProgress.maps
             /\ ~bulkDownloadProgress'.downloading
             /\ bt'[r].idx = 0
             /\ files' = files
      ]_vars

\* A second batch, for other names, has failed at its catalog request after
\* a first one had completed an item: the tracker still shows the first.
C31_Witness ==
    \E r \in Runs :
        /\ bt[r].pc = "returned"
        /\ bt[r].ret = Some([success |-> FALSE,
                             message |-> BatchErrorMessage(TypeError)])
        /\ used.batches = 2
        /\ bulkDownloadProgress.total = 1
        /\ bulkDownloadProgress.completed = 1
        /\ Len(bt[r].mapNames) = 2
        /\ ~bulkDownloadProgress.downloading

(***************************************************************************)
(* Properties of the two servers, checked under SpecServers.               *)
(***************************************************************************)
\* No call that starts server s is awaiting a port.
NoStartPending(s) == \A q \in Runs : sr[s][q].pc # "listen"

\* C32: for the GSI server and the overlay server, in every state getStatus
\* reports running = true exactly when port is not null, and a server whose
\* server field is null (it was never started, or stop has returned) with
\* no start awaiting a port has no open listener.
C32_StatusAndListenersAgree ==
    \A s \in Servers :
        /\ GetStatus(s).running <=> GetStatus(s).port # NoPort
        /\ (servers[s].server = NoPort /\ NoStartPending(s))
              => listeners[s] = {}

\* C33: a call of start on a running server returns the current port and
\* opens no listener, and a server never has more than one open listener,
\* also when two calls of start overlap.
C33_AtMostOneListener ==
    [][\A s \in Servers :
          /\ Cardinality(listeners'[s]) <= 1
          /\ \A q \in Runs :
                (/\ servers[s].isRunning
                 /\ sr[s][q].pc \in {"idle", "returned", "verify"}
                 /\ sr'[s][q] # sr[s][q]
                 /\ sr'[s][q].pc # "verify")
                => /\ sr'[s][q].pc # "listen"
                   /\ sr'[s][q].port = servers[s].port
                   /\ listeners' = listeners
      ]_vars

\* C34: a call of overlay:start-server made while the GSI server is not
\* running and no call is starting it (it was never started, or it has been
\* stopped) returns at once, with success = false and the 'GSI server is
\* not running' error, and leaves the overlay server stopped with no call
\* starting it.
C34_OverlayNeedsRunningGsi ==
    [][(/\ sr["overlay"][1].pc \in {"idle", "returned"}
        /\ sr'["overlay"][1] # sr["overlay"][1]
        /\ ~GetStatus("gsi").running
        /\ NoStartPending("gsi"))
       => /\ sr'["overlay"][1].pc = "returned"
          /\ sr'["overlay"][1].ret
                = Some(StartResult(FALSE, NoPort, NotRunningError))
          /\ ~GetStatus("overlay").running'
      ]_vars

(***************************************************************************)
(* Properties of the GSI request listener, checked under SpecTelemetry.    *)
(***************************************************************************)
\* The step is the answer to a request (a request that repeats the last one
\* with the same effect leaves the state as it is).
RequestStep == response' # response \/ telemetry' # telemetry

\* The fields after a POST whose body parsed.
Stored(body) ==
    [latestGameState |-> JsonParse(body).value, lastDataReceived |-> Some(now)]

\* C35, as stated: a POST with a valid JSON body replaces latestGameState
\* and sets lastDataReceived to the time of the request; a POST with an
\* invalid body answers 400 and every request that is no POST answers 405,
\* and both leave latestGameState and lastDataReceived unchanged.
C35_EveryNonPostAnswers405 ==
    [][RequestStep =>
          LET method == response'.method
              body == response'.body
          IN /\ (method = "POST" /\ JsonParse(body).ok)
                   => telemetry' = Stored(body)
             /\ (method = "POST" /\ ~JsonParse(body).ok)
                   => response'.status = 400 /\ telemetry' = telemetry
             /\ method # "POST"
                   => response'.status = 405 /\ telemetry' = telemetry
      ]_vars

\* C35, amended: a POST with a valid JSON body answers 200, replaces
\* latestGameState and sets lastDataReceived to the time of the request; a
\* POST with an invalid body answers 400, an OPTIONS request answers 200
\* and a request of any other method answers 405, and these three leave
\* latestGameState and lastDataReceived unchanged.
C35_KeepsLastGoodState ==
    [][RequestStep =>
          LET method == response'.method
              body == response'.body
          IN /\ (method = "POST" /\ JsonParse(body).ok)
                   => response'.status = 200 /\ telemetry' = Stored(body)
             /\ (method = "POST" /\ ~JsonParse(body).ok)
                   => response'.status = 400 /\ telemetry' = telemetry
             /\ method = "OPTIONS"
                   => response'.status = 200 /\ telemetry' = telemetry
             /\ method \notin {"POST", "OPTIONS"}
                   => response'.status = 405 /\ telemetry' = telemetry
      ]_vars

\* A POST with a body that is no JSON has been answered 400 after an
\* earlier POST had stored a game state at an earlier time: the state and
\* its time are still there.
C35_Witness ==
    /\ response = [method |-> "POST", body |-> "{", status |-> 400]
    /\ telemetry.latestGameState = Some(1)
    /\ telemetry.lastDataReceived = Some(Now0)
    /\ now > Now0

====
